---- MODULE Spec2Model ----
(***************************************************************************)
(* Subscriber registry (file backend: bot.py, relational backend: db.py)   *)
(* and the notification API (notify_api.py) of the Telegram bot.           *)
(*                                                                         *)
(* Encoding of Python values:                                              *)
(*   None            NULL == <<"None">>                                    *)
(*   a str           the sequence of its characters, "" == << >>           *)
(*   an Optional int IntVal(n) == <<"int", n>>                             *)
(*   an ISO-8601 str Iso(t) == <<"iso", t>>  (datetime.isoformat())        *)
(*   a datetime      Dt(t)  == <<"dt", t>>                                 *)
(*   a dict          a function whose DOMAIN is the set of its keys        *)
(***************************************************************************)
EXTENDS Integers, Sequences, FiniteSets, TLC

VARIABLES backend, token, file, backups, table, now, api, last, prev, changed,
          txn, limit, req, tasks, sem, sends, resp, key, hdr, upd, app

----------------------------------------------------------------------------
(* Bounds of the model *)

MaxChat == 2
MaxTime == 4
MaxLimit == 2

ChatIds == 1..MaxChat

(* Program constant: the cap of the identifier column, String(18) *)
NipMaxLen == 18

----------------------------------------------------------------------------
(* Python values *)

NULL == <<"None">>
IntVal(n) == <<"int", n>>
Iso(t) == <<"iso", t>>
Dt(t) == <<"dt", t>>

(* Python truthiness of an Optional[str]: None and "" are falsy *)
Truthy(s) == s # NULL /\ s # << >>

(* a str of n times the character ch *)
Rep(ch, n) == [i \in 1..n |-> ch]

UpperCase ==
    <<"A", "B", "C", "D", "E", "F", "G", "H", "I", "J", "K", "L", "M",
      "N", "O", "P", "Q", "R", "S", "T", "U", "V", "W", "X", "Y", "Z">>
LowerCase ==
    <<"a", "b", "c", "d", "e", "f", "g", "h", "i", "j", "k", "l", "m",
      "n", "o", "p", "q", "r", "s", "t", "u", "v", "w", "x", "y", "z">>

(* str.lower() *)
lower(s) ==
    [i \in 1..Len(s) |->
        IF \E n \in DOMAIN UpperCase : UpperCase[n] = s[i]
        THEN LowerCase[CHOOSE n \in DOMAIN UpperCase : UpperCase[n] = s[i]]
        ELSE s[i]]

(* needle in hay, on str *)
Contains(hay, needle) ==
    \E i \in 0..(Len(hay) - Len(needle)) : SubSeq(hay, i + 1, i + Len(needle)) = needle

(* dict.get(k): the value of the key, None when the key is absent *)
Get(meta, k) == IF k \in DOMAIN meta THEN meta[k] ELSE NULL

(* meta[k] = v *)
Put(meta, k, v) == (k :> v) @@ meta

EmptyMap == << >>

(* datetime.isoformat() of a stored datetime, None kept *)
isoformat(d) == IF d = NULL THEN NULL ELSE Iso(d[2])

(* db._parse_iso_datetime: None and datetimes pass, an ISO string is       *)
(* parsed, any other string fails to parse and yields None                 *)
_parse_iso_datetime(s) ==
    IF s = NULL THEN NULL
    ELSE IF Len(s) = 2 /\ s[1] = "dt" THEN s
    ELSE IF Len(s) = 2 /\ s[1] = "iso" THEN Dt(s[2])
    ELSE NULL

----------------------------------------------------------------------------
(* File backend, bot.py *)

AbsentFile == [kind |-> "absent", ids |-> {}, map |-> EmptyMap]
DictFile(m) == [kind |-> "dict", ids |-> {}, map |-> m]
(* a file that exists and has no byte *)
EmptyFile == [kind |-> "empty", ids |-> {}, map |-> EmptyMap]
(* a file whose text json.load rejects *)
InvalidFile(text) == [kind |-> "invalid", ids |-> {}, map |-> EmptyMap, text |-> text]
(* a file that json.load reads and that is neither the list nor the dict   *)
(* of records: "undecodable" (bytes that are not UTF-8: the read inside    *)
(* json.load raises UnicodeDecodeError, which is not a                     *)
(* json.JSONDecodeError), and the well-formed JSON that is of no use:      *)
(* records: "scalar" (a number, a string, null), "badkey" (a dict with a   *)
(* key that int() rejects), "badvalue" (a dict with a value that is        *)
(* truthy and has no get)                                                  *)
ShapeFile(kind, text) == [kind |-> kind, ids |-> {}, map |-> EmptyMap, text |-> text]
(* the legacy file: a JSON list of chat ids *)
ListFile(ids) == [kind |-> "list", ids |-> ids, map |-> EmptyMap]

(* the five keys written for every entry, bot.py _save_subscribers_map *)
SavedMeta(v) ==
    [first_name |-> Get(v, "first_name"),
     last_name |-> Get(v, "last_name"),
     username |-> Get(v, "username"),
     subscribed_at |-> Get(v, "subscribed_at"),
     updated_at |-> Get(v, "updated_at")]

(* the content of the file after _save_subscribers_map(subs_map) *)
_save_subscribers_map(subs_map) ==
    DictFile([k \in DOMAIN subs_map |-> SavedMeta(subs_map[k])])

(* _norm of _load_subscribers_map *)
_norm(meta) ==
    [first_name |-> Get(meta, "first_name"),
     last_name |-> Get(meta, "last_name"),
     username |-> Get(meta, "username"),
     subscribed_at |-> Get(meta, "subscribed_at"),
     updated_at |-> Get(meta, "updated_at")]

(* the mutant of LegacyMeta that leaves subscribed_at of a migrated chat   *)
(* id unset                                                                *)
LegacyMetaUnset(t) ==
    [first_name |-> NULL, last_name |-> NULL, username |-> NULL,
     subscribed_at |-> NULL]

(* the record of a chat id of a legacy list *)
LegacyMeta(t) ==
    [first_name |-> NULL, last_name |-> NULL, username |-> NULL,
     subscribed_at |-> Iso(t)]

(* the mutant of needs_write that has every load of a dict write it back *)
needs_writeAlways(data) == TRUE

(* 'last_name' not in (v or {}) for some value of the dict *)
needs_write(data) == \E k \in DOMAIN data : "last_name" \notin DOMAIN data[k]

(* the mutant of ContentKind without the test of the size: json.load is    *)
(* given the empty file and rejects it                                     *)
ContentKindNoSizeCheck(f) == IF f.kind = "empty" THEN "invalid" ELSE f.kind

(* what the load finds: no file, st_size == 0, or what json.load makes of  *)
(* the content                                                             *)
ContentKind(f) == f.kind

(* _load_subscribers_map: the returned map, the file and the backups after *)
(* the call, and the number of writes of the file it made                  *)
_load_subscribers_map(f, bk, t) ==
    CASE ContentKind(f) \in {"absent", "empty"} ->
           [map |-> EmptyMap, file |-> f, backups |-> bk, writes |-> 0]
      [] ContentKind(f) = "invalid" ->
           [map |-> EmptyMap, file |-> _save_subscribers_map(EmptyMap),
            backups |-> Put(bk, t, f), writes |-> 1]
      [] ContentKind(f) = "undecodable" ->
           [map |-> EmptyMap, file |-> f, backups |-> bk, writes |-> 0]
      [] ContentKind(f) = "scalar" ->
           [map |-> EmptyMap, file |-> f, backups |-> bk, writes |-> 0]
      [] ContentKind(f) \in {"badkey", "badvalue"} ->
           [map |-> EmptyMap, file |-> f, backups |-> bk, writes |-> 0]
      [] ContentKind(f) = "list" ->
           LET subs_map == [c \in f.ids |-> LegacyMeta(t)]
           IN [map |-> subs_map, file |-> _save_subscribers_map(subs_map),
               backups |-> bk, writes |-> 1]
      [] ContentKind(f) = "dict" ->
           LET subs_map == [k \in DOMAIN f.map |-> _norm(f.map[k])]
           IN IF needs_write(f.map)
              THEN [map |-> subs_map, file |-> _save_subscribers_map(subs_map),
                    backups |-> bk, writes |-> 1]
              ELSE [map |-> subs_map, file |-> f, backups |-> bk, writes |-> 0]
      [] OTHER ->
           [map |-> EmptyMap, file |-> f, backups |-> bk, writes |-> 0]

(* the mutant of FieldDiffers that takes every supplied value for a change *)
FieldDiffersAlways(stored, supplied) == Truthy(supplied)

(* bot.py: if first_name and meta.get("first_name") != first_name *)
FieldDiffers(stored, supplied) == Truthy(supplied) /\ stored # supplied

(* the mutant of add_subscriber that saves the record of chat_id alone,    *)
(* without the map it loaded                                               *)
add_subscriberAlone(f, bk, t, chat_id, first_name, username, last_name) ==
    LET L == _load_subscribers_map(f, bk, t)
        meta == [first_name |-> first_name, last_name |-> last_name,
                 username |-> username, subscribed_at |-> Iso(t)]
    IN [file |-> _save_subscribers_map(chat_id :> meta),
        backups |-> L.backups, writes |-> L.writes + 1]

(* add_subscriber: load, create or update-if-changed, save *)
add_subscriber(f, bk, t, chat_id, first_name, username, last_name) ==
    LET L == _load_subscribers_map(f, bk, t)
        subs_map == L.map
    IN IF chat_id \in DOMAIN subs_map
       THEN LET meta == subs_map[chat_id]
                c1 == FieldDiffers(Get(meta, "first_name"), first_name)
                c2 == FieldDiffers(Get(meta, "last_name"), last_name)
                c3 == FieldDiffers(Get(meta, "username"), username)
                m1 == IF c1 THEN Put(meta, "first_name", first_name) ELSE meta
                m2 == IF c2 THEN Put(m1, "last_name", last_name) ELSE m1
                m3 == IF c3 THEN Put(m2, "username", username) ELSE m2
                updated == c1 \/ c2 \/ c3
                m4 == Put(m3, "updated_at", Iso(t))
            IN IF updated
               THEN [file |-> _save_subscribers_map(Put(subs_map, chat_id, m4)),
                     backups |-> L.backups, writes |-> L.writes + 1]
               ELSE [file |-> L.file, backups |-> L.backups, writes |-> L.writes]
       ELSE LET meta == [first_name |-> first_name, last_name |-> last_name,
                         username |-> username, subscribed_at |-> Iso(t)]
            IN [file |-> _save_subscribers_map(Put(subs_map, chat_id, meta)),
                backups |-> L.backups, writes |-> L.writes + 1]

----------------------------------------------------------------------------
(* Relational backend, db.py *)

(* nip[:18] if nip and len(nip) > 18 else nip *)
TruncNip(nip) ==
    IF Truthy(nip) /\ Len(nip) > NipMaxLen THEN SubSeq(nip, 1, NipMaxLen) ELSE nip

(* get_subscribers_map: the rows as metadata dicts *)
get_subscribers_map(tbl) ==
    [c \in DOMAIN tbl |->
        [first_name |-> tbl[c].first_name,
         last_name |-> tbl[c].last_name,
         username |-> tbl[c].username,
         nip |-> tbl[c].nip,
         subscribed_at |-> isoformat(tbl[c].subscribed_at),
         updated_at |-> isoformat(tbl[c].updated_at)]]

(* upsert_subscriber: updated_at of the row it creates *)
NewRowUpdatedAt(t) == Dt(t)

(* upsert_subscriber, obj is None: the row that is added *)
NewRow(t, first_name, last_name, username, nip, subscribed_at) ==
    [first_name |-> first_name,
     last_name |-> last_name,
     username |-> username,
     nip |-> TruncNip(nip),
     subscribed_at |-> IF Truthy(subscribed_at)
                       THEN _parse_iso_datetime(subscribed_at) ELSE Dt(t),
     updated_at |-> NewRowUpdatedAt(t)]

(* db.py: if first_name is not None and obj.first_name != first_name *)
ColDiffers(stored, supplied) == supplied # NULL /\ stored # supplied

(* upsert_subscriber, obj found: the columns the call assigns *)
ChangedCols(obj, t, first_name, last_name, username, nip) ==
    LET c1 == ColDiffers(obj.first_name, first_name)
        c2 == ColDiffers(obj.last_name, last_name)
        c3 == ColDiffers(obj.username, username)
        c4 == nip # NULL /\ obj.nip # TruncNip(nip)
        s1 == IF c1 THEN ("first_name" :> first_name) ELSE EmptyMap
        s2 == IF c2 THEN ("last_name" :> last_name) ELSE EmptyMap
        s3 == IF c3 THEN ("username" :> username) ELSE EmptyMap
        s4 == IF c4 THEN ("nip" :> TruncNip(nip)) ELSE EmptyMap
        s5 == IF c1 \/ c2 \/ c3 \/ c4 THEN ("updated_at" :> Dt(t)) ELSE EmptyMap
    IN s1 @@ s2 @@ s3 @@ s4 @@ s5

(* the row after the UPDATE of the assigned columns *)
ApplyCols(row, cols) == [k \in DOMAIN row |-> IF k \in DOMAIN cols THEN cols[k] ELSE row[k]]

(* upsert_subscriber run alone: get, add or update-if-changed, commit *)
upsert_subscriber(tbl, t, chat_id, first_name, last_name, username, nip, subscribed_at) ==
    IF chat_id \notin DOMAIN tbl
    THEN [table |-> Put(tbl, chat_id,
                        NewRow(t, first_name, last_name, username, nip, subscribed_at)),
          writes |-> 1]
    ELSE LET cols == ChangedCols(tbl[chat_id], t, first_name, last_name, username, nip)
         IN IF DOMAIN cols # {}
            THEN [table |-> Put(tbl, chat_id, ApplyCols(tbl[chat_id], cols)), writes |-> 1]
            ELSE [table |-> tbl, writes |-> 0]

(* Python's  x or y  on an Optional[datetime] *)
OrElse(x, y) == IF x = NULL THEN y ELSE x

(* save_subscribers_map, obj is None: the row that is added *)
SavedNewRow(meta, t) ==
    [first_name |-> Get(meta, "first_name"),
     last_name |-> Get(meta, "last_name"),
     username |-> Get(meta, "username"),
     nip |-> TruncNip(Get(meta, "nip")),
     subscribed_at |-> OrElse(_parse_iso_datetime(Get(meta, "subscribed_at")), Dt(t)),
     updated_at |-> OrElse(_parse_iso_datetime(Get(meta, "updated_at")), Dt(t))]

(* save_subscribers_map, obj found: subscribed_at is the only column kept *)
SavedOldRow(obj, meta, t) ==
    [first_name |-> Get(meta, "first_name"),
     last_name |-> Get(meta, "last_name"),
     username |-> Get(meta, "username"),
     nip |-> TruncNip(Get(meta, "nip")),
     subscribed_at |-> obj.subscribed_at,
     updated_at |-> OrElse(_parse_iso_datetime(Get(meta, "updated_at")), Dt(t))]

(* save_subscribers_map: every entry of the map is added or overwritten,   *)
(* the rows of the other chat ids stay                                     *)
save_subscribers_map(tbl, subs_map, t) ==
    [c \in DOMAIN tbl \cup DOMAIN subs_map |->
        IF c \notin DOMAIN subs_map THEN tbl[c]
        ELSE IF c \in DOMAIN tbl THEN SavedOldRow(tbl[c], subs_map[c], t)
        ELSE SavedNewRow(subs_map[c], t)]

----------------------------------------------------------------------------
(* Registry facade: the backend is chosen once, at start *)

(* the persisted records of the selected backend, all six fields *)
SixFields(v) ==
    [first_name |-> Get(v, "first_name"),
     last_name |-> Get(v, "last_name"),
     username |-> Get(v, "username"),
     nip |-> Get(v, "nip"),
     subscribed_at |-> Get(v, "subscribed_at"),
     updated_at |-> Get(v, "updated_at")]

RegistryOf(b, f, tbl) ==
    IF b = "db" THEN get_subscribers_map(tbl)
    ELSE IF f.kind = "dict" THEN [k \in DOMAIN f.map |-> SixFields(f.map[k])]
    ELSE EmptyMap

Registry == RegistryOf(backend, file, table)

(* the facade's load: the rows of the table, or the file's load *)
FacadeLoad(b, f, bk, tbl, t) ==
    IF b = "db"
    THEN [map |-> get_subscribers_map(tbl), file |-> f, backups |-> bk, writes |-> 0]
    ELSE _load_subscribers_map(f, bk, t)

(* the facade's bulk save, of the whole map *)
FacadeSave(b, f, tbl, subs_map, t) ==
    IF b = "db"
    THEN [file |-> f, table |-> save_subscribers_map(tbl, subs_map, t)]
    ELSE [file |-> _save_subscribers_map(subs_map), table |-> tbl]

(* the identifier as it is stored: capped at 18 characters *)
_normalize_nip(nip) ==
    IF nip = NULL THEN NULL
    ELSE IF Len(nip) > NipMaxLen THEN SubSeq(nip, 1, NipMaxLen) ELSE nip

----------------------------------------------------------------------------
(* Inputs *)

S_Al == <<"A", "l">>
S_Bo == <<"B", "o">>
S_Li == <<"L", "i">>
S_eve == <<"e", "v", "e">>
LongNip == Rep("9", NipMaxLen + 1)
ShortNip == <<"N", "1">>

(* the profiles <<first_name, last_name, username>> a call may carry *)
Profiles ==
    {<<NULL, NULL, NULL>>, <<S_Al, NULL, NULL>>, <<S_Al, S_Li, S_eve>>,
     <<S_Bo, NULL, S_eve>>, <<(<< >>), S_Li, NULL>>}
NipArgs == {NULL, LongNip}

(* the profiles of the calls that run next to an HTTP request *)
FewProfiles == {<<S_Al, NULL, NULL>>, <<S_Bo, NULL, S_eve>>}

NameFields == {"first_name", "last_name", "username"}
DataFields == NameFields \cup {"nip"}

----------------------------------------------------------------------------
(* History of the last two completed calls, for the properties *)

NoCall ==
    [op |-> "none", cid |-> 0, first_name |-> NULL, last_name |-> NULL,
     username |-> NULL, nip |-> NULL, pre |-> EmptyMap, file |-> AbsentFile,
     table |-> EmptyMap, at |-> 0, writes |-> 0, seen |-> EmptyMap,
     assigned |-> {}, status |-> 0, updated |-> 0, subs |-> EmptyMap]

Call(op, c, fn, ln, un, nip, w) ==
    [op |-> op, cid |-> c, first_name |-> fn, last_name |-> ln,
     username |-> un, nip |-> nip, pre |-> Registry, file |-> file,
     table |-> table, at |-> now, writes |-> w, seen |-> EmptyMap,
     assigned |-> {}, status |-> 200, updated |-> 0, subs |-> EmptyMap]

(* what is kept of the call before the last one *)
Brief(call) ==
    [op |-> call.op, cid |-> call.cid, first_name |-> call.first_name,
     last_name |-> call.last_name, username |-> call.username,
     nip |-> call.nip, writes |-> call.writes,
     existed |-> call.cid \in DOMAIN call.pre, subs |-> call.subs]

(* the chat ids whose record some upsert found and changed *)
ChangedBy(c, pre, post) ==
    IF c \in DOMAIN pre /\ c \in DOMAIN post
       /\ \E k \in DataFields : pre[c][k] # post[c][k]
    THEN {c} ELSE {}

----------------------------------------------------------------------------
(* State machine of the registry *)

(* the variables of the concurrent sessions of the relational backend *)
txnVars == <<txn>>

(* the variables of a /notify request *)
dispVars == <<limit, req, tasks, sem, sends, resp>>

(* the variables of the registry *)
regVars == <<backend, token, key, hdr, upd, app, file, backups, table, now, api, last, prev,
            changed>>

vars == <<backend, token, file, backups, table, now, api, last, prev, changed,
          txn, limit, req, tasks, sem, sends, resp, key, hdr, upd, app>>

MaxSessions == 2
Sessions == 1..MaxSessions

(* a session of upsert_subscriber that has not begun *)
IdleTxn ==
    [pc |-> "idle", cid |-> 0, first_name |-> NULL, last_name |-> NULL,
     username |-> NULL, nip |-> NULL, found |-> FALSE, obj |-> EmptyMap, at |-> 0]

(* the default of the environment variable NOTIFY_CONCURRENCY *)
NOTIFY_CONCURRENCY == 10

(* the chat ids a message can be sent to: those of the registry, 0 and one *)
(* chat id that is not subscribed                                          *)
SendIds == 0..(MaxChat + 1)

(* a host of a URL: the text that urlparse returns as hostname (lower      *)
(* case), whether it is a DNS name or an address literal, and the kind of  *)
(* address the destination has                                             *)
Host(text, form, net) == [text |-> text, form |-> form, net |-> net]

(* a URL without a host *)
NoHost == Host(<< >>, "none", "none")

(* a URL: its scheme and its host; NoUrl when there is none (unset, empty) *)
Url(scheme, host) == [scheme |-> scheme, host |-> host]
NoUrl == Url(<< >>, NoHost)

(* the bot's process before main() runs: no handler is registered, no      *)
(* follow-up is scheduled, nothing was broadcast. delay is FOLLOWUP_DELAY,  *)
(* admin is ADMIN_CHAT_ID                                                  *)
NoApplication ==
    [pc |-> "init", handlers |-> << >>, delay |-> 0, admin |-> NULL,
     pending |-> [c \in ChatIds |-> 0], followed |-> [c \in ChatIds |-> 0],
     cast |-> {}, endpoint |-> NoUrl,
     allowed_hosts |-> << >>, reply |-> "none"]

(* no update of the messenger has been handled *)
NoUpdate ==
    [handler |-> "none", chat_type |-> NULL, uid |-> NULL, replied |-> FALSE]

NoRequest ==
    [pc |-> "idle", chat_id |-> NULL, username |-> NULL, first_name |-> NULL,
     last_name |-> NULL, nip |-> NULL, loaded |-> FALSE, snapshot |-> EmptyMap,
     targets |-> {}, raised |-> FALSE]

NoResponse == [status |-> 0, sent |-> 0]

(* no /notify request has been received *)
NoNotify ==
    /\ req = NoRequest
    /\ tasks = EmptyMap
    /\ sem = 0
    /\ sends = [c \in SendIds |-> 0]
    /\ resp = NoResponse

(* the mutant of _check_api_key that lets a request without the header in *)
_check_api_keyHeaderOptional(secret, header) ==
    Truthy(secret) /\ Truthy(header) /\ header # secret

(* _check_api_key raises 401: a secret is set (NOTIFY_API_KEY is truthy)   *)
(* and the X-API-KEY header is missing, empty or another string            *)
_check_api_key(secret, header) ==
    Truthy(secret) /\ (~Truthy(header) \/ header # secret)

(* no HTTP request on the registry is in flight *)
IdleApi ==
    [pc |-> "idle", op |-> "none", cid |-> 0, subs |-> EmptyMap, at |-> 0,
     seen |-> EmptyMap, assigned |-> {}, todo |-> {}, updated |-> 0,
     nip |-> NULL, first_name |-> NULL, last_name |-> NULL, username |-> NULL,
     inflight |-> {}]

Init ==
    /\ key = NULL
    /\ hdr = NULL
    /\ upd = NoUpdate
    /\ app = NoApplication
    /\ backend \in {"file", "db"}
    /\ token \in BOOLEAN
    /\ file = AbsentFile
    /\ backups = EmptyMap
    /\ table = EmptyMap
    /\ now = 1
    /\ api = IdleApi
    /\ last = NoCall
    /\ prev = Brief(NoCall)
    /\ changed = {}
    /\ txn = [i \in Sessions |-> IdleTxn]
    /\ limit = NOTIFY_CONCURRENCY
    /\ NoNotify

(* what an HTTP request in flight misses: the records a bot-side upsert    *)
(* wrote after the request loaded the registry                             *)
Seen(c, w, post) ==
    IF api.pc # "idle" /\ w > 0 /\ c \in DOMAIN post
    THEN [api EXCEPT !.seen = Put(api.seen, c, post[c])]
    ELSE api

(* the bot-side upsert through the facade: add_subscriber on the file      *)
(* backend, upsert_subscriber on the relational backend                    *)
UpsertCall(c, fn, ln, un, nip) ==
    /\ now < MaxTime
    /\ now' = now + 1
    /\ UNCHANGED <<backend, token, key, hdr>>
    /\ UNCHANGED <<txnVars, dispVars>>
    /\ prev' = Brief(last)
    /\ IF backend = "file"
       THEN LET r == add_subscriber(file, backups, now, c, fn, un, ln)
            IN /\ nip = NULL
               /\ file' = r.file
               /\ backups' = r.backups
               /\ table' = table
               /\ last' = Call("upsert", c, fn, ln, un, nip, r.writes)
               /\ api' = Seen(c, r.writes, Registry')
       ELSE LET r == upsert_subscriber(table, now, c, fn, ln, un, nip, NULL)
            IN /\ table' = r.table
               /\ file' = file
               /\ backups' = backups
               /\ last' = Call("upsert", c, fn, ln, un, nip, r.writes)
               /\ api' = Seen(c, r.writes, Registry')
    /\ changed' = changed \cup ChangedBy(c, Registry, Registry')

(* the upsert as the registry's callers other than the bot's handlers     *)
(* make it: no update of the messenger is involved                         *)
Upsert(c, fn, ln, un, nip) ==
    /\ UpsertCall(c, fn, ln, un, nip)
    /\ upd' = upd
    /\ app' = app

(* the keys of the record of c that a request assigns *)
Assigned(c, keys) == {<<c, k>> : k \in keys}

(* update_subscriber (PUT /subscribers/{chat_id}) up to its save: load,    *)
(* set the supplied fields and updated_at on the loaded map                *)
PutLoad(c, fn, ln, un, nip) ==
    /\ ~_check_api_key(key, hdr)
    /\ api.pc = "idle"
    /\ now < MaxTime
    /\ now' = now + 1
    /\ LET L == FacadeLoad(backend, file, backups, table, now)
           meta == IF c \in DOMAIN L.map THEN L.map[c] ELSE EmptyMap
           m1 == IF fn # NULL THEN Put(meta, "first_name", fn) ELSE meta
           m2 == IF ln # NULL THEN Put(m1, "last_name", ln) ELSE m1
           m3 == IF un # NULL THEN Put(m2, "username", un) ELSE m2
           m4 == IF nip # NULL THEN Put(m3, "nip", _normalize_nip(nip)) ELSE m3
           m5 == Put(m4, "updated_at", Iso(now))
           keys == {k \in NameFields : <<fn, ln, un>>[CASE k = "first_name" -> 1
                                                        [] k = "last_name" -> 2
                                                        [] OTHER -> 3] # NULL}
       IN /\ file' = L.file
          /\ backups' = L.backups
          /\ api' = [IdleApi EXCEPT !.pc = "loaded", !.op = "put", !.cid = c,
                                    !.subs = Put(L.map, c, m5), !.at = now,
                                    !.assigned = Assigned(c, keys),
                                    !.nip = nip, !.first_name = fn,
                                    !.last_name = ln, !.username = un]
    /\ UNCHANGED <<backend, token, key, hdr, upd, app, table, last, prev, changed>>
    /\ UNCHANGED <<txnVars, dispVars>>

(* a fetched name replaces the stored one only when there is one *)
SyncedMetaKeepNames(meta, p, t) ==
    LET m1 == IF p[1] # NULL THEN Put(meta, "first_name", p[1]) ELSE meta
        m2 == IF p[2] # NULL THEN Put(m1, "last_name", p[2]) ELSE m1
        m3 == IF p[3] # NULL THEN Put(m2, "username", p[3]) ELSE m2
    IN Put(m3, "updated_at", Iso(t))

(* the record that a sync leaves for a chat whose profile p get_chat       *)
(* returned at time t: the three names as fetched, None where the chat     *)
(* has none, and updated_at                                                *)
SyncedMeta(meta, p, t) ==
    LET m1 == Put(meta, "first_name", p[1])
        m2 == Put(m1, "last_name", p[2])
        m3 == Put(m2, "username", p[3])
    IN Put(m3, "updated_at", Iso(t))

(* sync_subscriber (POST /subscribers/{chat_id}/sync) up to its save, when *)
(* get_chat returned the profile p: load, overwrite the three names        *)
SyncLoad(c, p) ==
    /\ ~_check_api_key(key, hdr)
    /\ api.pc = "idle"
    /\ token
    /\ now < MaxTime
    /\ now' = now + 1
    /\ LET L == FacadeLoad(backend, file, backups, table, now)
           meta == IF c \in DOMAIN L.map THEN L.map[c] ELSE EmptyMap
           m4 == SyncedMeta(meta, p, now)
       IN /\ file' = L.file
          /\ backups' = L.backups
          /\ api' = [IdleApi EXCEPT !.pc = "loaded", !.op = "sync", !.cid = c,
                                    !.subs = Put(L.map, c, m4), !.at = now,
                                    !.assigned = Assigned(c, NameFields),
                                    !.first_name = p[1], !.last_name = p[2],
                                    !.username = p[3]]
    /\ UNCHANGED <<backend, token, key, hdr, upd, app, table, last, prev, changed>>
    /\ UNCHANGED <<txnVars, dispVars>>

(* every refusal is reported as a missing configuration *)
RefusedStatusNotConfigured(tok) == 500

(* the status of a sync that is refused before the registry is loaded:     *)
(* 500 without a bot, 404 when get_chat raised                             *)
RefusedStatus(tok) == IF tok THEN 404 ELSE 500

(* sync_subscriber or sync_all_subscribers answered with an error before   *)
(* the registry is loaded: 500 without a bot, 404 when get_chat raised     *)
SyncRefused(c) ==
    /\ ~_check_api_key(key, hdr)
    /\ api.pc = "idle"
    /\ prev' = Brief(last)
    /\ last' = [Call("sync", c, NULL, NULL, NULL, NULL, 0)
                   EXCEPT !.status = RefusedStatus(token)]
    /\ UNCHANGED <<backend, token, key, hdr, upd, app, file, backups, table, now, api, changed>>
    /\ UNCHANGED <<txnVars, dispVars>>

(* sync_all_subscribers up to its tasks: load; an empty registry is        *)
(* answered at once, else one task per chat id of the loaded map           *)
SyncAllLoad ==
    /\ ~_check_api_key(key, hdr)
    /\ api.pc = "idle"
    /\ token
    /\ now < MaxTime
    /\ LET L == FacadeLoad(backend, file, backups, table, now)
       IN /\ file' = L.file
          /\ backups' = L.backups
          /\ IF DOMAIN L.map = {}
             THEN /\ api' = api
                  /\ prev' = Brief(last)
                  /\ last' = Call("syncall", 0, NULL, NULL, NULL, NULL, L.writes)
             ELSE /\ api' = [IdleApi EXCEPT !.pc = "syncing", !.op = "syncall",
                                            !.subs = L.map, !.todo = DOMAIN L.map]
                  /\ UNCHANGED <<last, prev>>
    /\ UNCHANGED <<backend, token, key, hdr, upd, app, table, now, changed>>
    /\ UNCHANGED <<txnVars, dispVars>>

(* _sync_one of sync_all_subscribers calls get_chat: the task was created  *)
(* by create_task and runs up to its await; the semaphore of the request   *)
(* is not entered by _sync_one                                             *)
SyncOneStart(c) ==
    /\ api.pc = "syncing"
    /\ c \in api.todo \ api.inflight
    /\ api' = [api EXCEPT !.inflight = api.inflight \cup {c}]
    /\ UNCHANGED <<backend, token, key, hdr, upd, app, file, backups, table, now, last,
                   prev, changed>>
    /\ UNCHANGED <<txnVars, dispVars>>

(* _sync_one of sync_all_subscribers, get_chat returned the profile p *)
SyncOneOk(c, p) ==
    /\ api.pc = "syncing"
    /\ c \in api.todo
    /\ now < MaxTime
    /\ now' = now + 1
    /\ LET meta == api.subs[c]
           m4 == SyncedMeta(meta, p, now)
       IN api' = [api EXCEPT !.subs = Put(api.subs, c, m4),
                             !.todo = api.todo \ {c},
                             !.inflight = api.inflight \ {c},
                             !.updated = api.updated + 1,
                             !.assigned = api.assigned \cup Assigned(c, NameFields)]
    /\ UNCHANGED <<backend, token, key, hdr, upd, app, file, backups, table, last, prev, changed>>
    /\ UNCHANGED <<txnVars, dispVars>>

(* a failed fetch is counted as an update *)
SyncOneFailCounted(c) ==
    /\ api.pc = "syncing"
    /\ c \in api.todo
    /\ api' = [api EXCEPT !.todo = api.todo \ {c}, !.inflight = api.inflight \ {c},
                          !.updated = api.updated + 1]
    /\ UNCHANGED <<backend, token, key, hdr, upd, app, file, backups, table, now, last, prev, changed>>
    /\ UNCHANGED <<txnVars, dispVars>>

(* _sync_one of sync_all_subscribers, get_chat raised: logged, no change *)
SyncOneFail(c) ==
    /\ api.pc = "syncing"
    /\ c \in api.todo
    /\ api' = [api EXCEPT !.todo = api.todo \ {c}, !.inflight = api.inflight \ {c}]
    /\ UNCHANGED <<backend, token, key, hdr, upd, app, file, backups, table, now, last, prev, changed>>
    /\ UNCHANGED <<txnVars, dispVars>>

(* the save of the whole loaded map that ends update_subscriber,           *)
(* sync_subscriber and sync_all_subscribers                                *)
ApiSave ==
    /\ \/ api.pc = "loaded"
       \/ api.pc = "syncing" /\ api.todo = {}
    /\ backend = "db" => now < MaxTime
    /\ now' = IF backend = "db" THEN now + 1 ELSE now
    /\ LET S == FacadeSave(backend, file, table, api.subs, now)
       IN /\ file' = S.file
          /\ table' = S.table
    /\ prev' = Brief(last)
    /\ last' = [Call(api.op, api.cid, api.first_name, api.last_name,
                      api.username, api.nip, 1)
                   EXCEPT !.seen = api.seen, !.assigned = api.assigned,
                          !.updated = api.updated, !.at = api.at]
    /\ api' = IdleApi
    /\ UNCHANGED <<backend, token, key, hdr, upd, app, backups, changed>>
    /\ UNCHANGED <<txnVars, dispVars>>

(* the maps a bulk save is given: the records of a subscribers file, as    *)
(* scripts/migrate_subscribers.py reads them                               *)
BulkMaps ==
    {(1 :> [first_name |-> S_Al, last_name |-> NULL, username |-> NULL,
            nip |-> LongNip, subscribed_at |-> Iso(0), updated_at |-> NULL]),
     (1 :> [first_name |-> S_Al, last_name |-> S_Li, username |-> S_eve,
            nip |-> ShortNip, subscribed_at |-> Iso(0), updated_at |-> NULL])
       @@ (MaxChat :> [first_name |-> S_Bo, last_name |-> NULL, username |-> NULL,
                       nip |-> LongNip, subscribed_at |-> Iso(0),
                       updated_at |-> Iso(0)])}

(* the bulk save of a whole map through the facade *)
SaveAll(m) ==
    /\ api.pc = "idle"
    /\ now < MaxTime
    /\ now' = now + 1
    /\ LET S == FacadeSave(backend, file, table, m, now)
       IN /\ file' = S.file
          /\ table' = S.table
    /\ prev' = Brief(last)
    /\ last' = [Call("saveall", 0, NULL, NULL, NULL, NULL, 1) EXCEPT !.subs = m]
    /\ UNCHANGED <<backend, token, key, hdr, upd, app, backups, api, changed>>
    /\ UNCHANGED <<txnVars, dispVars>>

NextUpsert ==
    \E c \in ChatIds, p \in Profiles, nip \in NipArgs :
        Upsert(c, p[1], p[2], p[3], nip)

SpecUpsert == Init /\ [][NextUpsert]_vars

(* the same upsert applied to the file and to the table, as the bot does   *)
(* with one backend and the other: add_subscriber and upsert_subscriber    *)
(* with the same chat id, names and time                                   *)
UpsertBoth(c, fn, ln, un) ==
    /\ now < MaxTime
    /\ now' = now + 1
    /\ LET r == add_subscriber(file, backups, now, c, fn, un, ln)
           q == upsert_subscriber(table, now, c, fn, ln, un, NULL, NULL)
       IN /\ file' = r.file
          /\ backups' = r.backups
          /\ table' = q.table
    /\ UNCHANGED <<backend, token, key, hdr, upd, app, api, last, prev, changed>>
    /\ UNCHANGED <<txnVars, dispVars>>

NextBoth == \E c \in ChatIds, p \in Profiles : UpsertBoth(c, p[1], p[2], p[3])

SpecBoth == Init /\ [][NextBoth]_vars

Next ==
    \/ \E c \in ChatIds, p \in FewProfiles, nip \in NipArgs :
          Upsert(c, p[1], p[2], p[3], nip)
    \/ \E c \in ChatIds, p \in FewProfiles, nip \in NipArgs :
          PutLoad(c, p[1], p[2], p[3], nip)
    \/ \E c \in ChatIds, p \in FewProfiles : SyncLoad(c, p)
    \/ \E c \in ChatIds : SyncRefused(c)
    \/ SyncAllLoad
    \/ \E c \in ChatIds, p \in FewProfiles : SyncOneOk(c, p)
    \/ \E c \in ChatIds : SyncOneFail(c)
    \/ ApiSave

Spec == Init /\ [][Next]_vars

(* sync-all alone, over the registries and the concurrency limits of the   *)
(* notify requests                                                         *)
NextSyncAll ==
    \/ SyncAllLoad
    \/ \E c \in ChatIds : SyncOneStart(c)
    \/ \E c \in ChatIds, p \in FewProfiles : SyncOneOk(c, p)
    \/ \E c \in ChatIds : SyncOneFail(c)
    \/ ApiSave


(* get_subscribers (GET /subscribers): the loaded map is the answer *)
GetSubscribers ==
    /\ ~_check_api_key(key, hdr)
    /\ now < MaxTime
    /\ now' = now + 1
    /\ LET L == FacadeLoad(backend, file, backups, table, now)
       IN /\ file' = L.file
          /\ backups' = L.backups
          /\ prev' = Brief(last)
          /\ last' = [Call("get", 0, NULL, NULL, NULL, NULL, L.writes)
                         EXCEPT !.subs = L.map]
    /\ UNCHANGED <<backend, token, key, hdr, upd, app, table, api, changed>>
    /\ UNCHANGED <<txnVars, dispVars>>

(* _save_subscribers_map(m) whose write fails part-way: the exception is   *)
(* caught and logged, the call returns None. open(file_path, "w") has      *)
(* truncated the file, and json.dump raised before any text reached the    *)
(* file ("nothing") or after a part of the text did ("part")               *)
SaveFails(m, left) ==
    /\ backend = "file"
    /\ now < MaxTime
    /\ now' = now + 1
    /\ file' = IF left = "nothing" THEN EmptyFile
               ELSE InvalidFile("{\"1\": {\"first_name\": ")
    /\ prev' = Brief(last)
    /\ last' = [Call("save_failed", 0, NULL, NULL, NULL, NULL, 1) EXCEPT !.subs = m]
    /\ UNCHANGED <<backend, token, key, hdr, upd, app, backups, table, api, changed>>
    /\ UNCHANGED <<txnVars, dispVars>>

(* the file backend, from no file *)
InitSave == Init /\ backend = "file"

(* the file backend with saves that fail: upserts, bulk saves cut short    *)
(* and loads                                                               *)
NextSave ==
    \/ \E c \in ChatIds, p \in FewProfiles : Upsert(c, p[1], p[2], p[3], NULL)
    \/ \E m \in BulkMaps, left \in {"nothing", "part"} : SaveFails(m, left)
    \/ GetSubscribers

SpecSave == InitSave /\ [][NextSave]_vars

(* the operations that store an identifier *)
NextNip ==
    \/ \E c \in ChatIds, p \in FewProfiles, nip \in NipArgs :
          Upsert(c, p[1], p[2], p[3], nip)
    \/ \E c \in ChatIds, p \in FewProfiles, nip \in NipArgs :
          PutLoad(c, p[1], p[2], p[3], nip)
    \/ ApiSave
    \/ \E m \in BulkMaps : SaveAll(m)
    \/ GetSubscribers

SpecNip == Init /\ [][NextNip]_vars

(* the subscribers files the bot can find at start: none, an empty one,   *)
(* unparsable text, the legacy list, a dict of an older version whose      *)
(* entries have no last_name (or are empty), and a dict of this version    *)
OldMeta(fn, un) == [first_name |-> fn, username |-> un, subscribed_at |-> Iso(0)]

StartFiles ==
    {AbsentFile, EmptyFile, InvalidFile("not-a-json"), InvalidFile("{"),
     ShapeFile("undecodable", "\\xff\\xfe"),
     ShapeFile("scalar", "5"), ShapeFile("badkey", "{'eve': {}}"),
     ShapeFile("badvalue", "{'1': 5}"),
     ListFile({}), ListFile({1}), ListFile(ChatIds),
     DictFile(1 :> OldMeta(S_Al, S_eve)),
     DictFile((1 :> OldMeta(S_Al, NULL)) @@ (MaxChat :> EmptyMap)),
     DictFile((1 :> SavedMeta(OldMeta(S_Bo, S_eve))) @@ (MaxChat :> OldMeta(S_Al, NULL))),
     DictFile(1 :> SavedMeta(OldMeta(S_Al, S_eve)))}

InitFile ==
    /\ key = NULL
    /\ hdr = NULL
    /\ upd = NoUpdate
    /\ app = NoApplication
    /\ backend = "file"
    /\ token \in BOOLEAN
    /\ file \in StartFiles
    /\ backups = EmptyMap
    /\ table = EmptyMap
    /\ now = 1
    /\ api = IdleApi
    /\ last = NoCall
    /\ prev = Brief(NoCall)
    /\ changed = {}
    /\ txn = [i \in Sessions |-> IdleTxn]
    /\ limit = NOTIFY_CONCURRENCY
    /\ NoNotify

(* the loads and the upserts of the file backend *)
NextFile ==
    \/ GetSubscribers
    \/ \E c \in ChatIds, p \in FewProfiles : Upsert(c, p[1], p[2], p[3], NULL)

SpecFile == InitFile /\ [][NextFile]_vars

----------------------------------------------------------------------------
(* Properties of upsert *)

SameArgs(a, b) ==
    /\ a.cid = b.cid
    /\ a.first_name = b.first_name
    /\ a.last_name = b.last_name
    /\ a.username = b.username
    /\ a.nip = b.nip

(* C1: an upsert repeated with identical arguments leaves one record for   *)
(* the chat id, changes no field of it (updated_at included) and does not  *)
(* write: the store after the second call is the store before it           *)
C1_IdempotentUpsert ==
    (last.op = "upsert" /\ prev.op = "upsert" /\ SameArgs(last, prev)) =>
        /\ last.cid \in DOMAIN Registry
        /\ Registry = last.pre
        /\ file = last.file
        /\ table = last.table
        /\ last.writes = 0

C1_Witness ==
    /\ last.op = "upsert" /\ prev.op = "upsert" /\ SameArgs(last, prev)
    /\ Truthy(last.first_name) /\ Truthy(last.username)
    /\ prev.writes > 0
    /\ prev.existed

(* the last call is an upsert of an existing record that carries a value   *)
(* (not None) for a name field that differs from the stored one            *)
UpsertWithDifference ==
    /\ last.op = "upsert"
    /\ last.cid \in DOMAIN last.pre
    /\ \E k \in NameFields : last[k] # NULL /\ last.pre[last.cid][k] # last[k]

(* C2: an upsert of an existing record with a differing supplied value     *)
(* sets exactly the differing supplied fields, sets updated_at to the time *)
(* of the call, writes, and keeps every field that was not supplied        *)
C2_ChangeGatedUpdate ==
    UpsertWithDifference =>
        LET pre == last.pre[last.cid]
            post == Registry[last.cid]
        IN /\ last.cid \in DOMAIN Registry
           /\ \A k \in NameFields :
                 post[k] = IF last[k] # NULL /\ pre[k] # last[k] THEN last[k] ELSE pre[k]
           /\ post.updated_at = Iso(last.at)
           /\ post.subscribed_at = pre.subscribed_at
           /\ (last.nip = NULL => post.nip = pre.nip)
           /\ last.writes > 0

(* C3: updated_at of a record is set exactly when some upsert found the    *)
(* record and changed one of its fields; an upsert that changes no field   *)
(* of an existing record neither sets updated_at nor writes                *)
C3_UpdatedAtIffChanged ==
    /\ \A c \in DOMAIN Registry : (Registry[c].updated_at # NULL) <=> (c \in changed)
    /\ (last.op = "upsert" /\ last.cid \in DOMAIN last.pre
            /\ \A k \in DataFields : Registry[last.cid][k] = last.pre[last.cid][k])
          => (last.writes = 0
              /\ Registry[last.cid].updated_at = last.pre[last.cid].updated_at)

----------------------------------------------------------------------------
(* Properties of the registry under all its operations *)

(* C4: subscribed_at of a record that exists is the same after every step  *)
(* of every registry operation (upsert, PUT, sync, sync-all, bulk save)    *)
C4_SubscribedAtImmutable ==
    [][\A c \in DOMAIN Registry \cap DOMAIN Registry' :
          Registry'[c].subscribed_at = Registry[c].subscribed_at]_vars

(* C5: when an upsert wrote a record while a PUT, a sync or a sync-all was *)
(* between its load and its save, the store after the save still holds     *)
(* that record, with the upserted value of every field that the request    *)
(* itself did not assign                                                   *)
C5_NoLostUpdate ==
    last.op \in {"put", "sync", "syncall"} =>
        \A c \in DOMAIN last.seen :
            /\ c \in DOMAIN Registry
            /\ \A k \in NameFields :
                  <<c, k>> \notin last.assigned => Registry[c][k] = last.seen[c][k]

----------------------------------------------------------------------------
(* Concurrent calls of upsert_subscriber, each in its own session and      *)
(* transaction (READ COMMITTED: a read sees the committed rows, the        *)
(* writes of a transaction take effect at its commit, an INSERT of a       *)
(* primary key that exists is an IntegrityError)                           *)

InitTxn ==
    /\ key = NULL
    /\ hdr = NULL
    /\ upd = NoUpdate
    /\ app = NoApplication
    /\ backend = "db"
    /\ token = TRUE
    /\ file = AbsentFile
    /\ backups = EmptyMap
    /\ table \in {EmptyMap,
                  (1 :> NewRow(0, S_Al, NULL, NULL, NULL, NULL))}
    /\ now = 1
    /\ api = IdleApi
    /\ last = NoCall
    /\ prev = Brief(NoCall)
    /\ changed = {}
    /\ txn = [i \in Sessions |-> IdleTxn]
    /\ limit = NOTIFY_CONCURRENCY
    /\ NoNotify

(* upsert_subscriber up to its commit: session.get reads the row *)
TxnGet(i, c, fn, ln, un, nip) ==
    /\ txn[i].pc = "idle"
    /\ now < MaxTime
    /\ now' = now + 1
    /\ txn' = [txn EXCEPT ![i] =
                 [pc |-> "read", cid |-> c, first_name |-> fn, last_name |-> ln,
                  username |-> un, nip |-> nip, found |-> c \in DOMAIN table,
                  obj |-> IF c \in DOMAIN table THEN table[c] ELSE EmptyMap,
                  at |-> now]]
    /\ UNCHANGED <<backend, token, key, hdr, upd, app, file, backups, table, api, last, prev, changed>>
    /\ UNCHANGED dispVars

(* the INSERT of a primary key that another transaction committed raises *)
InsertConflicts(tbl, c) == c \in DOMAIN tbl

(* the end of the transaction: the row read as absent is INSERTed, the     *)
(* assigned columns of a row read are UPDATEd, and the whole is committed  *)
TxnCommit(i) ==
    /\ txn[i].pc = "read"
    /\ LET x == txn[i]
           cols == ChangedCols(x.obj, x.at, x.first_name, x.last_name, x.username, x.nip)
       IN IF ~x.found
          THEN IF InsertConflicts(table, x.cid)
               THEN /\ table' = table
                    /\ txn' = [txn EXCEPT ![i].pc = "raised"]
               ELSE /\ table' = Put(table, x.cid,
                                    NewRow(x.at, x.first_name, x.last_name,
                                           x.username, x.nip, NULL))
                    /\ txn' = [txn EXCEPT ![i].pc = "done"]
          ELSE /\ table' = IF DOMAIN cols # {}
                           THEN Put(table, x.cid, ApplyCols(table[x.cid], cols))
                           ELSE table
               /\ txn' = [txn EXCEPT ![i].pc = "done"]
    /\ UNCHANGED <<backend, token, key, hdr, upd, app, file, backups, now, api, last, prev, changed>>
    /\ UNCHANGED dispVars

NextTxn ==
    \/ \E i \in Sessions, c \in ChatIds,
          p \in {<<S_Al, NULL, NULL>>, <<S_Bo, NULL, S_eve>>, <<NULL, S_Li, NULL>>} :
          TxnGet(i, c, p[1], p[2], p[3], NULL)
    \/ \E i \in Sessions : TxnCommit(i)

SpecTxn == InitTxn /\ [][NextTxn]_vars

(* the calls have all returned or raised *)
TxnFinished == \A i \in Sessions : txn[i].pc \in {"done", "raised"}

(* C6: after concurrent upserts of one chat id have finished, the row      *)
(* holds every name that a call supplied, unless another call supplied     *)
(* another value for the same field                                        *)
C6_NoLostUpsert ==
    TxnFinished =>
        \A i \in Sessions : \A k \in NameFields :
            (/\ txn[i][k] # NULL
             /\ \A j \in Sessions :
                   txn[j].cid = txn[i].cid => txn[j][k] \in {NULL, txn[i][k]})
            => /\ txn[i].cid \in DOMAIN table
               /\ table[txn[i].cid][k] = txn[i][k]

----------------------------------------------------------------------------
(* POST /notify, notify_api.py *)

(* Python truthiness of an Optional[int]: None and 0 are falsy *)
TruthyInt(n) == n # NULL /\ n[2] # 0

(* the mutant of NipTargets that narrows the name filter's result instead  *)
(* of replacing it                                                         *)
NipTargetsNarrowing(subs_map, base, nip) ==
    {c \in base : /\ DOMAIN subs_map[c] # {}
                  /\ Truthy(Get(subs_map[c], "nip"))
                  /\ Get(subs_map[c], "nip") = _normalize_nip(nip)}

(* notify: the targets of the identifier, taken from the whole map *)
NipTargets(subs_map, base, nip) ==
    {c \in DOMAIN subs_map : /\ DOMAIN subs_map[c] # {}
                             /\ Truthy(Get(subs_map[c], "nip"))
                             /\ Get(subs_map[c], "nip") = _normalize_nip(nip)}

(* notify: the targets of a request without chat_id *)
Resolve(subs_map, username, first_name, last_name, nip) ==
    LET base ==
          IF Truthy(username)
          THEN {c \in DOMAIN subs_map :
                   /\ Truthy(Get(subs_map[c], "username"))
                   /\ lower(Get(subs_map[c], "username")) = lower(username)}
          ELSE IF Truthy(first_name)
          THEN {c \in DOMAIN subs_map :
                   /\ Truthy(Get(subs_map[c], "first_name"))
                   /\ Contains(lower(Get(subs_map[c], "first_name")), lower(first_name))}
          ELSE IF Truthy(last_name)
          THEN {c \in DOMAIN subs_map :
                   /\ Truthy(Get(subs_map[c], "last_name"))
                   /\ Contains(lower(Get(subs_map[c], "last_name")), lower(last_name))}
          ELSE DOMAIN subs_map
    IN IF Truthy(nip) THEN NipTargets(subs_map, base, nip) ELSE base

(* the registry the requests are resolved against: every chat id is        *)
(* subscribed, as the upsert of its backend stored it                      *)
SubscriberOf(c) ==
    IF c % 2 = 1
    THEN [first_name |-> S_Al, last_name |-> S_Li, username |-> S_eve, nip |-> ShortNip]
    ELSE [first_name |-> S_Bo, last_name |-> NULL, username |-> NULL, nip |-> LongNip]

FullTable ==
    [c \in ChatIds |->
        NewRow(0, SubscriberOf(c).first_name, SubscriberOf(c).last_name,
               SubscriberOf(c).username, SubscriberOf(c).nip, NULL)]

FullFile ==
    _save_subscribers_map(
        [c \in ChatIds |->
            [first_name |-> SubscriberOf(c).first_name,
             last_name |-> SubscriberOf(c).last_name,
             username |-> SubscriberOf(c).username,
             subscribed_at |-> Iso(0)]])

ReqChatIds == {NULL, IntVal(0), IntVal(1), IntVal(MaxChat + 1)}
ReqUsernames == {NULL, << >>, <<"E", "V", "E">>}
ReqFirstNames == {NULL, << >>, <<"b">>}
ReqLastNames == {NULL, << >>, <<"l", "i">>}
ReqNips == {NULL, << >>, ShortNip, LongNip}

InitNotify ==
    /\ key = NULL
    /\ hdr = NULL
    /\ upd = NoUpdate
    /\ app = NoApplication
    /\ backend \in {"file", "db"}
    /\ token \in BOOLEAN
    /\ \/ file = AbsentFile /\ table = EmptyMap
       \/ backend = "file" /\ file = FullFile /\ table = EmptyMap
       \/ backend = "db" /\ file = AbsentFile /\ table = FullTable
    /\ backups = EmptyMap
    /\ now = 1
    /\ api = IdleApi
    /\ last = NoCall
    /\ prev = Brief(NoCall)
    /\ changed = {}
    /\ txn = [i \in Sessions |-> IdleTxn]
    /\ limit \in 0..MaxLimit
    /\ NoNotify

Request(pc, chat_id, un, fn, ln, nip) ==
    [pc |-> pc, chat_id |-> chat_id, username |-> un, first_name |-> fn,
     last_name |-> ln, nip |-> nip, loaded |-> FALSE, snapshot |-> EmptyMap,
     targets |-> {}, raised |-> FALSE]

(* notify with a truthy chat_id: 500 without a bot, else send_message is   *)
(* awaited for that chat id alone                                          *)
NotifyDirect(chat_id, un, fn, ln, nip) ==
    /\ ~_check_api_key(key, hdr)
    /\ req.pc = "idle"
    /\ TruthyInt(chat_id)
    /\ IF ~token
       THEN /\ req' = Request("done", chat_id, un, fn, ln, nip)
            /\ resp' = [status |-> 500, sent |-> 0]
            /\ sends' = sends
       ELSE /\ req' = Request("direct", chat_id, un, fn, ln, nip)
            /\ resp' = resp
            /\ sends' = [sends EXCEPT ![chat_id[2]] = @ + 1]
    /\ UNCHANGED <<limit, tasks, sem>>
    /\ UNCHANGED <<regVars, txnVars>>

(* the awaited send_message of the chat_id branch returns, or raises: the  *)
(* exception is not caught by notify                                       *)
DirectReturn(ok) ==
    /\ req.pc = "direct"
    /\ req' = [req EXCEPT !.pc = "done", !.raised = ~ok]
    /\ resp' = IF ok THEN [status |-> 200, sent |-> 1] ELSE [status |-> 500, sent |-> 0]
    /\ UNCHANGED <<limit, tasks, sem, sends>>
    /\ UNCHANGED <<regVars, txnVars>>

(* the mutant of SemaphoreFree that lets every task in *)
SemaphoreFreeAlways(value) == TRUE

(* asyncio.Semaphore: acquire returns at once only while the value is > 0 *)
SemaphoreFree(value) == value > 0

(* the mutant of AfterResolve that looks for the bot before it looks at    *)
(* the targets                                                             *)
AfterResolveBotFirst(targets, tok) ==
    IF ~tok THEN "no_bot" ELSE IF targets = {} THEN "empty" ELSE "dispatch"

(* notify, after the targets are resolved: 'if not targets' returns        *)
(* sent=0 before get_bot() is asked for                                    *)
AfterResolve(targets, tok) ==
    IF targets = {} THEN "empty" ELSE IF ~tok THEN "no_bot" ELSE "dispatch"

(* notify without a truthy chat_id: load the registry, resolve the         *)
(* targets; no target is sent=0, no bot is 500, else one task per target   *)
NotifyResolve(chat_id, un, fn, ln, nip) ==
    /\ ~_check_api_key(key, hdr)
    /\ req.pc = "idle"
    /\ ~TruthyInt(chat_id)
    /\ LET L == FacadeLoad(backend, file, backups, table, now)
           targets == Resolve(L.map, un, fn, ln, nip)
           r == [Request("done", chat_id, un, fn, ln, nip)
                    EXCEPT !.loaded = TRUE, !.snapshot = L.map, !.targets = targets]
       IN /\ file' = L.file
          /\ backups' = L.backups
          /\ IF AfterResolve(targets, token) = "empty"
             THEN /\ req' = r
                  /\ resp' = [status |-> 200, sent |-> 0]
                  /\ UNCHANGED <<tasks, sem>>
             ELSE IF AfterResolve(targets, token) = "no_bot"
             THEN /\ req' = r
                  /\ resp' = [status |-> 500, sent |-> 0]
                  /\ UNCHANGED <<tasks, sem>>
             ELSE /\ req' = [r EXCEPT !.pc = "dispatch"]
                  /\ resp' = resp
                  /\ tasks' = [c \in targets |-> "waiting"]
                  /\ sem' = limit
    /\ UNCHANGED <<limit, sends>>
    /\ UNCHANGED <<backend, token, key, hdr, upd, app, table, now, api, last, prev, changed>>
    /\ UNCHANGED txnVars

(* _send_to enters the semaphore and calls send_message *)
Acquire(c) ==
    /\ req.pc = "dispatch"
    /\ c \in DOMAIN tasks
    /\ tasks[c] = "waiting"
    /\ SemaphoreFree(sem)
    /\ sem' = sem - 1
    /\ tasks' = [tasks EXCEPT ![c] = "sending"]
    /\ sends' = [sends EXCEPT ![c] = @ + 1]
    /\ UNCHANGED <<limit, req, resp>>
    /\ UNCHANGED <<regVars, txnVars>>

(* a task whose send failed waits for another attempt *)
TaskResultRetry(ok) == IF ok THEN "ok" ELSE "waiting"

(* how _send_to ends: it returns True after send_message, and False from   *)
(* its except branch; either way the task is over                          *)
TaskResult(ok) == IF ok THEN "ok" ELSE "failed"

(* send_message of a task returns (True) or raises (caught, False); the    *)
(* semaphore is released                                                   *)
SendReturn(c, ok) ==
    /\ req.pc = "dispatch"
    /\ c \in DOMAIN tasks
    /\ tasks[c] = "sending"
    /\ sem' = sem + 1
    /\ tasks' = [tasks EXCEPT ![c] = TaskResult(ok)]
    /\ UNCHANGED <<limit, req, sends, resp>>
    /\ UNCHANGED <<regVars, txnVars>>

(* the mutant of SentCount that counts every result *)
SentCountAll(ts) == Cardinality(DOMAIN ts)

(* sum(1 for r in results if r) *)
SentCount(ts) == Cardinality({c \in DOMAIN ts : ts[c] = "ok"})

(* asyncio.gather returned: every task has finished *)
Gather ==
    /\ req.pc = "dispatch"
    /\ \A c \in DOMAIN tasks : tasks[c] \in {"ok", "failed"}
    /\ req' = [req EXCEPT !.pc = "done"]
    /\ resp' = [status |-> 200, sent |-> SentCount(tasks)]
    /\ UNCHANGED <<limit, tasks, sem, sends>>
    /\ UNCHANGED <<regVars, txnVars>>

NextNotify ==
    \/ \E chat_id \in ReqChatIds, un \in ReqUsernames, fn \in ReqFirstNames,
          ln \in ReqLastNames, nip \in ReqNips :
          NotifyDirect(chat_id, un, fn, ln, nip)
    \/ \E ok \in BOOLEAN : DirectReturn(ok)
    \/ \E chat_id \in ReqChatIds, un \in ReqUsernames, fn \in ReqFirstNames,
          ln \in ReqLastNames, nip \in ReqNips :
          NotifyResolve(chat_id, un, fn, ln, nip)
    \/ \E c \in ChatIds : Acquire(c)
    \/ \E c \in ChatIds, ok \in BOOLEAN : SendReturn(c, ok)
    \/ Gather

SpecNotify == InitNotify /\ [][NextNotify]_vars

SpecSyncAll == InitNotify /\ [][NextSyncAll]_vars

(* the event loop runs every task that can run: a task that can enter the  *)
(* semaphore does, every send_message returns, gather returns when all     *)
(* tasks are over                                                          *)
SpecNotifyFair ==
    /\ SpecNotify
    /\ \A c \in ChatIds : WF_vars(Acquire(c))
    /\ \A c \in ChatIds : WF_vars(\E ok \in BOOLEAN : SendReturn(c, ok))
    /\ WF_vars(Gather)

----------------------------------------------------------------------------
(* The shared secret of the HTTP endpoints, notify_api.py *)

S_secret == <<"s", "e", "c">>

(* NOTIFY_API_KEY: unset, set to the empty string, set to a secret *)
InitAuth ==
    /\ key \in {NULL, << >>, S_secret}
    /\ hdr = NULL
    /\ upd = NoUpdate
    /\ app = NoApplication
    /\ backend \in {"file", "db"}
    /\ token = TRUE
    /\ \/ backend = "file" /\ file = FullFile /\ table = EmptyMap
       \/ backend = "db" /\ file = AbsentFile /\ table = FullTable
    /\ backups = EmptyMap
    /\ now = 1
    /\ api = IdleApi
    /\ last = NoCall
    /\ prev = Brief(NoCall)
    /\ changed = {}
    /\ txn = [i \in Sessions |-> IdleTxn]
    /\ limit = NOTIFY_CONCURRENCY
    /\ NoNotify

(* the client sets the header of its next requests, between two requests *)
SetHeader(h) ==
    /\ api.pc = "idle"
    /\ req.pc \in {"idle", "done"}
    /\ h # hdr
    /\ hdr' = h
    /\ UNCHANGED <<backend, token, key, upd, app, file, backups, table, now, api, last,
                   prev, changed>>
    /\ UNCHANGED <<txnVars, dispVars>>

(* a request that _check_api_key refuses: HTTPException(401) is raised by  *)
(* the first statement of the handler                                      *)
Unauthorized(e) ==
    /\ _check_api_key(key, hdr)
    /\ api.pc = "idle"
    /\ prev' = Brief(last)
    /\ last' = [Call(e, 0, NULL, NULL, NULL, NULL, 0) EXCEPT !.status = 401]
    /\ IF e = "notify"
       THEN /\ req.pc = "idle"
            /\ req' = [NoRequest EXCEPT !.pc = "done"]
            /\ resp' = [status |-> 401, sent |-> 0]
       ELSE UNCHANGED <<req, resp>>
    /\ UNCHANGED <<backend, token, key, hdr, upd, app, file, backups, table, now, api, changed>>
    /\ UNCHANGED <<limit, tasks, sem, sends>>
    /\ UNCHANGED txnVars

(* no request is being handled: the client of this specification sends    *)
(* its requests one after the other                                        *)
NoneInFlight == api.pc = "idle" /\ req.pc \in {"idle", "done"}

NextAuth ==
    \/ \E h \in {NULL, << >>, S_secret, <<"x">>} : SetHeader(h)
    \/ \E e \in {"notify", "get", "put", "sync", "syncall"} :
          NoneInFlight /\ Unauthorized(e)
    \/ NoneInFlight /\ NotifyDirect(IntVal(1), NULL, NULL, NULL, NULL)
    \/ DirectReturn(TRUE)
    \/ NoneInFlight /\ NotifyResolve(NULL, NULL, NULL, NULL, NULL)
    \/ \E c \in ChatIds : Acquire(c)
    \/ \E c \in ChatIds : SendReturn(c, TRUE)
    \/ Gather
    \/ NoneInFlight /\ GetSubscribers
    \/ NoneInFlight /\ PutLoad(1, S_Bo, NULL, NULL, NULL)
    \/ NoneInFlight /\ SyncLoad(1, <<S_Bo, NULL, S_eve>>)
    \/ NoneInFlight /\ SyncAllLoad
    \/ \E c \in ChatIds : SyncOneOk(c, <<S_Bo, NULL, S_eve>>)
    \/ ApiSave

SpecAuth == InitAuth /\ [][NextAuth]_vars

----------------------------------------------------------------------------
(* Properties of /notify *)

InFlight == Cardinality({c \in DOMAIN tasks : tasks[c] = "sending"})

(* C7: at most NOTIFY_CONCURRENCY send_message calls of a dispatch are in  *)
(* flight at the same time                                                 *)
C7_ConcurrencyBound == InFlight <= limit

C7_Witness ==
    /\ req.pc = "dispatch"
    /\ limit >= 1
    /\ InFlight = limit
    /\ \E c \in DOMAIN tasks : tasks[c] = "waiting"

(* C8: a dispatch answers 200 with sent equal to the number of targets     *)
(* whose send_message succeeded, and every target had its send, whatever   *)
(* sends failed                                                            *)
C8_PartialFailure ==
    (req.pc = "done" /\ DOMAIN tasks # {}) =>
        /\ resp.status = 200
        /\ resp.sent = Cardinality({c \in req.targets : tasks[c] = "ok"})
        /\ \A c \in req.targets : sends[c] = 1

C8_Witness ==
    /\ req.pc = "done"
    /\ \E c \in DOMAIN tasks : tasks[c] = "failed"
    /\ \E c \in DOMAIN tasks : tasks[c] = "ok"

(* C9: a request with chat_id present (any integer, 0 included) sends to   *)
(* that chat id only, exactly once when it is answered 200, and does not   *)
(* read the registry                                                       *)
C9_ExplicitChatId ==
    (req.pc # "idle" /\ req.chat_id # NULL) =>
        /\ ~req.loaded
        /\ \A c \in SendIds : sends[c] > 0 => c = req.chat_id[2]
        /\ (req.pc = "done" /\ resp.status = 200) =>
              (sends[req.chat_id[2]] = 1 /\ resp.sent = 1)

(* C10: a request without chat_id that carries nip targets exactly the     *)
(* records of the snapshot whose identifier equals the nip capped at 18    *)
(* characters, whatever name filters it also carries                       *)
C10_NipPriority ==
    (req.pc # "idle" /\ req.chat_id = NULL /\ req.nip # NULL) =>
        req.targets = {c \in DOMAIN req.snapshot :
                          Get(req.snapshot[c], "nip") = _normalize_nip(req.nip)}

(* the records of a snapshot that the first present of username,           *)
(* first_name, last_name selects: username by equality ignoring case, the  *)
(* names by containment ignoring case                                      *)
NameSelected(snapshot, un, fn, ln) ==
    IF un # NULL
    THEN {c \in DOMAIN snapshot :
             /\ Get(snapshot[c], "username") # NULL
             /\ lower(Get(snapshot[c], "username")) = lower(un)}
    ELSE IF fn # NULL
    THEN {c \in DOMAIN snapshot :
             /\ Get(snapshot[c], "first_name") # NULL
             /\ Contains(lower(Get(snapshot[c], "first_name")), lower(fn))}
    ELSE {c \in DOMAIN snapshot :
             /\ Get(snapshot[c], "last_name") # NULL
             /\ Contains(lower(Get(snapshot[c], "last_name")), lower(ln))}

HasNameFilter(r) == r.username # NULL \/ r.first_name # NULL \/ r.last_name # NULL

IdentifierSelected(snapshot, nip) ==
    {c \in DOMAIN snapshot : Get(snapshot[c], "nip") = _normalize_nip(nip)}

(* C11 as stated: a request that carries both nip and a name filter        *)
(* targets the records that match the name filter and whose identifier     *)
(* equals the capped nip                                                   *)
C11_NipNarrows ==
    (req.pc # "idle" /\ req.chat_id = NULL /\ req.nip # NULL /\ HasNameFilter(req)) =>
        req.targets = NameSelected(req.snapshot, req.username, req.first_name,
                                   req.last_name)
                      \cap IdentifierSelected(req.snapshot, req.nip)

(* C11 amended: a resolved request that carries a non-empty nip and a name *)
(* filter targets every record whose identifier equals the capped nip,     *)
(* whether or not the record matches the name filter                       *)
C11_NipReplaces ==
    (req.loaded /\ Truthy(req.nip) /\ HasNameFilter(req)) =>
        /\ req.targets = IdentifierSelected(req.snapshot, req.nip)
        /\ \A c \in DOMAIN tasks : c \in IdentifierSelected(req.snapshot, req.nip)

C11_Witness ==
    /\ req.loaded /\ Truthy(req.nip) /\ HasNameFilter(req)
    /\ \E c \in req.targets :
          c \notin NameSelected(req.snapshot, req.username, req.first_name,
                                req.last_name)
    /\ \E c \in DOMAIN tasks : sends[c] = 1

(* C12: a request without chat_id and nip that carries a name filter       *)
(* targets exactly the records selected by the first present of username   *)
(* (equality ignoring case), first_name and last_name (containment         *)
(* ignoring case)                                                          *)
C12_NameFilters ==
    (req.pc # "idle" /\ req.chat_id = NULL /\ req.nip = NULL /\ HasNameFilter(req)) =>
        req.targets = NameSelected(req.snapshot, req.username, req.first_name,
                                   req.last_name)

NoCriterion(r) ==
    /\ r.chat_id = NULL /\ r.nip = NULL
    /\ r.username = NULL /\ r.first_name = NULL /\ r.last_name = NULL

(* the chat ids that match the criterion of a request that carries one,    *)
(* in the order chat_id, nip, username, first_name, last_name              *)
CriterionSelected(r) ==
    IF r.chat_id # NULL THEN {r.chat_id[2]}
    ELSE IF r.nip # NULL THEN IdentifierSelected(r.snapshot, r.nip)
    ELSE NameSelected(r.snapshot, r.username, r.first_name, r.last_name)

(* C13: a request is a full broadcast exactly when it carries none of      *)
(* chat_id, nip, username, first_name, last_name; a request that carries   *)
(* one of them, an empty string or zero included, neither targets nor      *)
(* sends to a chat id that does not match it                               *)
C13_BroadcastIffNoCriterion ==
    req.pc # "idle" =>
        /\ NoCriterion(req) => (req.loaded /\ req.targets = DOMAIN req.snapshot)
        /\ ~NoCriterion(req) =>
              \A c \in SendIds :
                 (c \in req.targets \/ sends[c] > 0) => c \in CriterionSelected(req)

(* the field the criterion of a request without chat_id refers to *)
FilteredField(r) ==
    IF r.nip # NULL THEN "nip"
    ELSE IF r.username # NULL THEN "username"
    ELSE IF r.first_name # NULL THEN "first_name"
    ELSE "last_name"

(* C14: a record whose username, first name, last name or identifier is    *)
(* missing or null is never a target of, nor sent to by, a request that    *)
(* filters on that field, whatever the value of the filter                 *)
C14_MissingFieldNeverMatches ==
    (req.pc # "idle" /\ req.chat_id = NULL /\ ~NoCriterion(req)) =>
        \A c \in DOMAIN req.snapshot :
           Get(req.snapshot[c], FilteredField(req)) = NULL =>
              (c \notin req.targets /\ sends[c] = 0)

----------------------------------------------------------------------------
(* Properties of the stored identifier *)

TooLong(nip) == nip # NULL /\ Len(nip) > NipMaxLen

(* C16: after every upsert, bulk save and PUT every stored identifier has  *)
(* at most 18 characters, and a call that was given a longer identifier    *)
(* succeeded and stored exactly its first 18 characters                    *)
C16_NipTruncated ==
    /\ \A c \in DOMAIN Registry :
          Registry[c].nip # NULL => Len(Registry[c].nip) <= NipMaxLen
    /\ (last.op \in {"upsert", "put"} /\ TooLong(last.nip)) =>
          /\ last.status = 200
          /\ last.cid \in DOMAIN Registry
          /\ Registry[last.cid].nip = SubSeq(last.nip, 1, NipMaxLen)
    /\ last.op = "saveall" =>
          \A c \in DOMAIN last.subs :
             TooLong(last.subs[c].nip) =>
                /\ c \in DOMAIN Registry
                /\ Registry[c].nip = SubSeq(last.subs[c].nip, 1, NipMaxLen)

SixKeys == {"first_name", "last_name", "username", "nip", "subscribed_at", "updated_at"}

(* C17: on the file backend a load that follows a bulk save returns, for   *)
(* every chat id of the saved map, a record with all six keys and the      *)
(* saved value of each of them (null for a missing one); a load that       *)
(* follows a PUT with an identifier returns that identifier                *)
C17_FileRoundTrip ==
    (backend = "file" /\ last.op = "get") =>
        /\ prev.op = "saveall" =>
              \A c \in DOMAIN prev.subs :
                 /\ c \in DOMAIN last.subs
                 /\ DOMAIN last.subs[c] = SixKeys
                 /\ \A k \in SixKeys : last.subs[c][k] = Get(prev.subs[c], k)
        /\ (prev.op = "put" /\ prev.nip # NULL) =>
              /\ prev.cid \in DOMAIN last.subs
              /\ Get(last.subs[prev.cid], "nip") = _normalize_nip(prev.nip)

----------------------------------------------------------------------------
(* Properties of the load of the file backend *)

(* the record of a migrated chat id: no name, no identifier, no update *)
MigratedAt(meta, t) ==
    /\ \A k \in SixKeys \ {"subscribed_at"} : Get(meta, k) = NULL
    /\ Get(meta, "subscribed_at") = Iso(t)

(* C18: the load of a legacy list returns one record per listed chat id,   *)
(* without names and with subscribed_at the time of the load, and leaves   *)
(* the file in mapping shape; a load that follows a load returns the same  *)
(* chat ids with the same fields, subscribed_at included                   *)
C18_LegacyListMigration ==
    /\ (last.op = "get" /\ last.file.kind = "list") =>
          /\ DOMAIN last.subs = last.file.ids
          /\ \A c \in last.file.ids : MigratedAt(last.subs[c], last.at)
          /\ last.writes = 1
          /\ file.kind = "dict"
          /\ DOMAIN file.map = last.file.ids
          /\ \A c \in last.file.ids : MigratedAt(file.map[c], last.at)
    /\ (last.op = "get" /\ prev.op = "get") =>
          /\ DOMAIN last.subs = DOMAIN prev.subs
          /\ \A c \in DOMAIN prev.subs, k \in SixKeys :
                Get(last.subs[c], k) = Get(prev.subs[c], k)

C18_Witness ==
    /\ last.op = "get" /\ prev.op = "get"
    /\ last.file.kind = "dict"
    /\ DOMAIN last.subs = ChatIds
    /\ \A c \in ChatIds : MigratedAt(last.subs[c], last.at - 1)

LacksLastName(f) ==
    f.kind = "dict" /\ \E k \in DOMAIN f.map : "last_name" \notin DOMAIN f.map[k]

(* C19: the load of a dict in which some entry has no last_name writes     *)
(* the file once, with last_name null on those entries and every other     *)
(* value kept; the load of a dict whose entries all have last_name, and    *)
(* every load that follows a load, does not write                          *)
C19_LastNameMigratedOnce ==
    /\ (last.op = "get" /\ LacksLastName(last.file)) =>
          /\ last.writes = 1
          /\ file.kind = "dict"
          /\ DOMAIN file.map = DOMAIN last.file.map
          /\ \A c \in DOMAIN file.map :
                /\ "last_name" \in DOMAIN file.map[c]
                /\ \A k \in SixKeys \ {"nip"} :
                      Get(file.map[c], k) = Get(last.file.map[c], k)
    /\ (last.op = "get" /\ last.file.kind = "dict" /\ ~LacksLastName(last.file)) =>
          (last.writes = 0 /\ file = last.file)
    /\ (last.op = "get" /\ prev.op = "get") => (last.writes = 0 /\ file = last.file)

C19_Witness ==
    /\ last.op = "get" /\ prev.op = "get"
    /\ prev.writes = 1 /\ last.writes = 0
    /\ backups = EmptyMap
    /\ \E c \in DOMAIN file.map :
          file.map[c].first_name = S_Al /\ file.map[c].last_name = NULL

Unparsable(f) == f.kind \in {"invalid", "undecodable"}

(* C20: the load of a file whose content cannot be parsed returns the      *)
(* empty map (the answer is 200), the content is kept in a backup and the  *)
(* file is a dict without entries                                          *)
C20_CorruptionRecovery ==
    (last.op = "get" /\ Unparsable(last.file)) =>
        /\ last.status = 200
        /\ last.subs = EmptyMap
        /\ \E t \in DOMAIN backups : backups[t] = last.file
        /\ file = DictFile(EmptyMap)

WrongShape(f) == f.kind \in {"scalar", "badkey", "badvalue"}

(* C21: the load of a file of well-formed content that is not the expected *)
(* structure returns the empty map, keeps the content in a backup and      *)
(* leaves a dict without entries in the file; no call that found such a    *)
(* file leaves its content without a backup                                *)
C21_WrongShapeQuarantined ==
    /\ (last.op = "get" /\ WrongShape(last.file)) =>
          /\ last.subs = EmptyMap
          /\ file = DictFile(EmptyMap)
    /\ (last.op \in {"get", "upsert"} /\ WrongShape(last.file)) =>
          \E t \in DOMAIN backups : backups[t] = last.file

(* C22: the load of an absent file or of an empty file returns the empty   *)
(* map, does not write and leaves the file as it was, without a backup     *)
C22_AbsentOrEmpty ==
    (last.op = "get" /\ last.file.kind \in {"absent", "empty"}) =>
        /\ last.status = 200
        /\ last.subs = EmptyMap
        /\ last.writes = 0
        /\ file = last.file
        /\ backups = EmptyMap

C22_Witness ==
    /\ last.op = "get" /\ prev.op = "get"
    /\ last.file = EmptyFile
    /\ file = EmptyFile

----------------------------------------------------------------------------
(* Properties of the shared secret *)

(* a secret is configured and the header of the client is missing or is    *)
(* not the secret                                                          *)
BadHeader == Truthy(key) /\ (hdr = NULL \/ hdr # key)

(* C23: while a secret is configured and the client's header is missing    *)
(* or different, every request of every endpoint is answered 401 and no    *)
(* step writes the registry, starts a request or calls the Messenger;      *)
(* without a secret no request is answered 401                             *)
C23_SharedSecret ==
    [][/\ BadHeader =>
            /\ <<file, backups, table, api, tasks, sends>>' =
                  <<file, backups, table, api, tasks, sends>>
            /\ last' # last => last'.status = 401
            /\ resp' # resp => resp'.status = 401
       /\ ~Truthy(key) => (last'.status # 401 /\ resp'.status # 401)]_vars

C23_Witness ==
    /\ BadHeader
    /\ last.status = 401 /\ last.op = "put"
    /\ prev.op = "put" /\ prev.writes = 1
    /\ resp.status = 200 /\ resp.sent > 0

----------------------------------------------------------------------------------------------------------------------------------------
(* The bot's handlers that keep the registry, bot.py *)

S_private == <<"p", "r", "i", "v", "a", "t", "e">>

(* message.chat.type of an update; None when the chat carries none *)
ChatTypes == {S_private, <<"g", "r", "o", "u", "p">>, NULL}

(* message.from_user.id of an update; None for an update without a user *)
UserIds == {IntVal(c) : c \in ChatIds} \cup {NULL}

(* the update that a handler has taken *)
Update(handler, chat_type, uid, replied) ==
    [handler |-> handler, chat_type |-> chat_type, uid |-> uid,
     replied |-> replied]

(* start stores the user of a private chat: 'chat_type == "private" and    *)
(* uid'                                                                     *)
StartStores(chat_type, uid) == chat_type = S_private /\ TruthyInt(uid)

(* on_message returns early when 'chat_type != "private" or uid is None'   *)
MessageStores(chat_type, uid) == chat_type = S_private /\ uid # NULL

(* the application is built whether there is a token or not *)
TokenMissingNever(tok) == FALSE

(* main(): 'if not token: raise SystemExit' *)
TokenMissing(tok) == ~tok

(* the handlers that main() registers, in its order *)
Handlers ==
    <<"start", "help", "haysay", "notifyme", "broadcast", "senddata", "on_message">>

(* main() up to the built application: without TELEGRAM_TOKEN the process  *)
(* exits at once                                                           *)
MainBuild ==
    /\ app.pc = "init"
    /\ app' = [app EXCEPT !.pc = IF TokenMissing(token) THEN "exited" ELSE "built"]
    /\ UNCHANGED <<backend, token, key, hdr, upd, file, backups, table, now, api,
                   last, prev, changed, txnVars, dispVars>>

(* main(): the next app.add_handler(...) *)
AddHandler ==
    /\ app.pc = "built"
    /\ Len(app.handlers) < Len(Handlers)
    /\ app' = [app EXCEPT !.handlers = Append(@, Handlers[Len(@) + 1])]
    /\ UNCHANGED <<backend, token, key, hdr, upd, file, backups, table, now, api,
                   last, prev, changed, txnVars, dispVars>>

(* main(): app.run_polling() after the last add_handler *)
RunPolling ==
    /\ app.pc = "built"
    /\ app.handlers = Handlers
    /\ app' = [app EXCEPT !.pc = "polling"]
    /\ UNCHANGED <<backend, token, key, hdr, upd, file, backups, table, now, api,
                   last, prev, changed, txnVars, dispVars>>

(* the follow-up task is created whatever the delay is *)
SchedulesFollowupAlways(delay, has_app) == has_app

(* start creates the follow-up task under 'FOLLOWUP_DELAY > 0 and context  *)
(* and getattr(context, "application", None)'                              *)
SchedulesFollowup(delay, has_app) == delay > 0 /\ has_app

(* start (/start): the welcome text is replied first; when reply_text      *)
(* raises, the exception ends the handler. Then the user of a private      *)
(* chat is passed to add_subscriber, and after it the follow-up task of    *)
(* that user is created.                                                   *)
start(chat_type, uid, p, replied, has_app) ==
    /\ app.pc = "polling"
    /\ upd' = Update("start", chat_type, uid, replied)
    /\ IF replied /\ StartStores(chat_type, uid)
       THEN /\ UpsertCall(uid[2], p[1], p[2], p[3], NULL)
            /\ app' = [app EXCEPT
                         !.pending[uid[2]] =
                             IF SchedulesFollowup(app.delay, has_app)
                             THEN @ + 1 ELSE @]
       ELSE UNCHANGED <<backend, token, key, hdr, app, file, backups, table, now,
                        api, last, prev, changed, txnVars, dispVars>>

(* _delayed_send: the sleep is over and send_message is awaited once; an   *)
(* exception is logged and the task ends either way                        *)
_delayed_send(c, ok) ==
    /\ app.pc = "polling"
    /\ app.pending[c] > 0
    /\ app' = [app EXCEPT !.pending[c] = @ - 1, !.followed[c] = @ + 1]
    /\ UNCHANGED <<backend, token, key, hdr, upd, file, backups, table, now, api,
                   last, prev, changed, txnVars, dispVars>>

(* on_message (any message that is not a command): the user of a private   *)
(* chat is passed to add_subscriber, nothing is sent                       *)
on_message(chat_type, uid, p) ==
    /\ app.pc = "polling"
    /\ upd' = Update("message", chat_type, uid, TRUE)
    /\ IF MessageStores(chat_type, uid)
       THEN UpsertCall(uid[2], p[1], p[2], p[3], NULL) /\ app' = app
       ELSE UNCHANGED <<backend, token, key, hdr, app, file, backups, table, now,
                        api, last, prev, changed, txnVars, dispVars>>

(* the profile that the updates of the bot carry *)
BotProfiles == {<<S_Bo, NULL, S_eve>>}

(* FOLLOWUP_DELAY is an integer of the environment: negative, 0, positive *)
InitBot ==
    /\ key = NULL
    /\ hdr = NULL
    /\ upd = NoUpdate
    /\ app \in {[NoApplication EXCEPT !.delay = d] : d \in {-1, 0, 1}}
    /\ backend \in {"file", "db"}
    /\ token \in BOOLEAN
    /\ file = AbsentFile
    /\ backups = EmptyMap
    /\ table = EmptyMap
    /\ now = 1
    /\ api = IdleApi
    /\ last = NoCall
    /\ prev = Brief(NoCall)
    /\ changed = {}
    /\ txn = [i \in Sessions |-> IdleTxn]
    /\ limit = NOTIFY_CONCURRENCY
    /\ NoNotify

NextBot ==
    \/ MainBuild
    \/ AddHandler
    \/ RunPolling
    \/ \E chat_type \in ChatTypes, uid \in UserIds, p \in BotProfiles,
          replied \in BOOLEAN, has_app \in BOOLEAN :
          start(chat_type, uid, p, replied, has_app)
    \/ \E c \in ChatIds, ok \in BOOLEAN : _delayed_send(c, ok)
    \/ \E chat_type \in ChatTypes, uid \in UserIds, p \in BotProfiles :
          on_message(chat_type, uid, p)

SpecBot == InitBot /\ [][NextBot]_vars

----------------------------------------------------------------------------
(* The outbound forwarding of /senddata, bot.py *)

S_https == <<"h", "t", "t", "p", "s">>
S_1 == <<"1">>

(* str() of a non-negative int *)
RECURSIVE DecStr(_)
DecStr(n) ==
    LET Digits == <<"0", "1", "2", "3", "4", "5", "6", "7", "8", "9">>
    IN IF n < 10 THEN <<Digits[n + 1]>>
       ELSE DecStr(n \div 10) \o <<Digits[(n % 10) + 1]>>

(* str() of a user id, a str of the environment, or None *)
str(v) ==
    IF v = NULL THEN <<"N", "o", "n", "e">>
    ELSE IF Len(v) = 2 /\ v[1] = "int" THEN DecStr(v[2])
    ELSE v

(* str.strip(), on blanks *)
RECURSIVE strip(_)
strip(t) ==
    IF t = << >> THEN t
    ELSE IF Head(t) = " " THEN strip(Tail(t))
    ELSE IF t[Len(t)] = " " THEN strip(SubSeq(t, 1, Len(t) - 1))
    ELSE t

(* the hosts of DATA_ENDPOINT: names and literals, with the form of the    *)
(* text and the network that the address is in                             *)
OutboundHosts ==
    {Host(<<"e", "x", ".", "c", "o", "m">>, "name", "public"),
     Host(<<"l", "o", "c", "a", "l", "h", "o", "s", "t">>, "name", "loopback"),
     Host(<<"1", "2", "7", ".", "0", ".", "0", ".", "1">>, "ipv4", "loopback"),
     Host(<<"1", "2", "7", ".", "0", ".", "0", ".", "2">>, "ipv4", "loopback"),
     Host(<<"1", "0", ".", "0", ".", "0", ".", "5">>, "ipv4", "private"),
     Host(<<"1", "6", "9", ".", "2", "5", "4", ".", "1", ".", "1">>, "ipv4", "link_local"),
     Host(<<"n", "a", "s", ".", "l", "a", "n">>, "name", "private"),
     Host(<<":", ":", "1">>, "ipv6", "loopback"),
     Host(<<"f", "e", "8", "0", ":", ":", "1">>, "ipv6", "link_local"),
     Host(<<"f", "d", "0", "0", ":", ":", "1">>, "ipv6", "private"),
     Host(<<"8", ".", "8", ".", "8", ".", "8">>, "ipv4", "public"),
     Host(<<"2", "6", "0", "6", ":", ":", "1">>, "ipv6", "public")}

(* socket.gethostbyname: an IPv4 literal is its own address, a name        *)
(* resolves or not, an IPv6 literal raises (the call is IPv4 only)         *)
gethostbyname(host, dns_ok) ==
    IF host.form = "ipv6" THEN "raise"
    ELSE IF host.form = "ipv4" THEN host.net
    ELSE IF dns_ok THEN host.net ELSE "raise"

(* _is_local_ip: private, loopback, reserved or link-local; False when     *)
(* the resolution raised                                                   *)
_is_local_ip(host, dns_ok) ==
    gethostbyname(host, dns_ok) \in {"private", "loopback", "reserved", "link_local"}

(* the hosts that _validate_outbound_url refuses by name *)
(* [h.strip().lower() for h in allowed_hosts.split(",") if h.strip()] *)
AllowedHosts(allowed_hosts) ==
    {lower(strip(allowed_hosts[i])) : i \in {j \in DOMAIN allowed_hosts :
                                                strip(allowed_hosts[j]) # << >>}}

(* _validate_outbound_url *)
_validate_outbound_url(url, allowed_hosts, dns_ok) ==
    IF url = NoUrl THEN FALSE
    ELSE IF url.scheme # S_https THEN FALSE
    ELSE IF url.host = NoHost THEN FALSE
    ELSE IF allowed_hosts # << >>
         THEN lower(url.host.text) \in AllowedHosts(allowed_hosts)
    ELSE IF lower(url.host.text) \in
            {<<"l", "o", "c", "a", "l", "h", "o", "s", "t">>,
             <<"1", "2", "7", ".", "0", ".", "0", ".", "1">>,
             <<":", ":", "1">>}
         THEN FALSE
    ELSE IF _is_local_ip(url.host, dns_ok) THEN FALSE
    ELSE TRUE

(* senddata (/senddata): admin only (SENDDATA_ADMIN_ONLY is "1" unless     *)
(* set), the data of the command, the endpoint and its check, then the     *)
(* POST; every outcome is replied to the sender                            *)
senddata(uid, data, dns_ok, post) ==
    /\ app.pc = "polling"
    /\ app' = [app EXCEPT !.reply =
          IF str(uid) # str(app.admin) THEN "unauthorized"
          ELSE IF data = "none" THEN "usage"
          ELSE IF data = "bad_json" THEN "invalid_json"
          ELSE IF app.endpoint = NoUrl THEN "no_endpoint"
          ELSE IF ~_validate_outbound_url(app.endpoint, app.allowed_hosts, dns_ok)
               THEN "not_allowed"
          ELSE post]
    /\ UNCHANGED <<backend, token, key, hdr, upd, file, backups, table, now, api,
                   last, prev, changed, txnVars, dispVars>>

(* DATA_ENDPOINT is unset, or an https or http URL with or without a host; *)
(* ALLOWED_OUTBOUND_HOSTS is given as the entries between its commas, none *)
(* when it is unset or empty                                               *)
InitOut ==
    /\ key = NULL
    /\ hdr = NULL
    /\ upd = NoUpdate
    /\ app \in {[NoApplication EXCEPT !.admin = S_1, !.endpoint = u,
                                      !.allowed_hosts = a] :
                    u \in {NoUrl} \cup
                          {Url(sc, h) : sc \in {S_https, <<"h", "t", "t", "p">>},
                                        h \in OutboundHosts \cup {NoHost}},
                    a \in {<< >>,
                           <<<<"n", "a", "s", ".", "l", "a", "n">>>>,
                           <<<<" ", "L", "o", "c", "a", "l", "H", "o", "s", "t", " ">>,
                             <<"f", "e", "8", "0", ":", ":", "1">>>>,
                           <<<<" ">>>>}}
    /\ backend = "file"
    /\ token = TRUE
    /\ file = AbsentFile
    /\ backups = EmptyMap
    /\ table = EmptyMap
    /\ now = 1
    /\ api = IdleApi
    /\ last = NoCall
    /\ prev = Brief(NoCall)
    /\ changed = {}
    /\ txn = [i \in Sessions |-> IdleTxn]
    /\ limit = NOTIFY_CONCURRENCY
    /\ NoNotify

NextOut ==
    \/ MainBuild
    \/ AddHandler
    \/ RunPolling
    \/ \E uid \in UserIds, data \in {"none", "bad_json", "json"},
          dns_ok \in BOOLEAN, post \in {"sent", "http_error", "failed"} :
          senddata(uid, data, dns_ok, post)

SpecOut == InitOut /\ [][NextOut]_vars

----------------
(* The /broadcast command *)

(* broadcast (/broadcast): the sender's test, the text of the command, the *)
(* load of the file's map, then one send_message per key of the map, an    *)
(* exception of a send being logged; every outcome is replied. cast is the *)
(* set of the chats that this command sent to. The test of the sender is   *)
(* 'str(uid) != str(ADMIN_CHAT_ID)', uid being None when the message has   *)
(* no from_user and ADMIN_CHAT_ID being None when it is not set.           *)
broadcast(uid, has_text) ==
    /\ app.pc = "polling"
    /\ upd' = Update("broadcast", NULL, uid, TRUE)
    /\ IF str(uid) # str(app.admin)
       THEN /\ app' = [app EXCEPT !.reply = "unauthorized", !.cast = {}]
            /\ UNCHANGED <<file, backups>>
       ELSE IF ~has_text
       THEN /\ app' = [app EXCEPT !.reply = "usage", !.cast = {}]
            /\ UNCHANGED <<file, backups>>
       ELSE LET r == _load_subscribers_map(file, backups, now)
            IN /\ file' = r.file
               /\ backups' = r.backups
               /\ app' = [app EXCEPT
                            !.reply = IF DOMAIN r.map = {} THEN "no_subscribers"
                                      ELSE "sent",
                            !.cast = DOMAIN r.map]
    /\ UNCHANGED <<backend, token, key, hdr, table, now, api, last, prev, changed,
                   txnVars, dispVars>>

(* ADMIN_CHAT_ID is unset or the id of a user *)
InitCast ==
    /\ key = NULL
    /\ hdr = NULL
    /\ upd = NoUpdate
    /\ app \in {[NoApplication EXCEPT !.admin = a] : a \in {NULL, S_1}}
    /\ backend = "file"
    /\ token = TRUE
    /\ file = AbsentFile
    /\ backups = EmptyMap
    /\ table = EmptyMap
    /\ now = 1
    /\ api = IdleApi
    /\ last = NoCall
    /\ prev = Brief(NoCall)
    /\ changed = {}
    /\ txn = [i \in Sessions |-> IdleTxn]
    /\ limit = NOTIFY_CONCURRENCY
    /\ NoNotify

NextCast ==
    \/ MainBuild
    \/ AddHandler
    \/ RunPolling
    \/ \E chat_type \in ChatTypes, uid \in UserIds, p \in BotProfiles :
          on_message(chat_type, uid, p)
    \/ \E uid \in UserIds, has_text \in BOOLEAN : broadcast(uid, has_text)

SpecCast == InitCast /\ [][NextCast]_vars

----------------
(* Properties of the HTTP endpoints of the registry *)

(* the request that the last save ended had the registry to itself: no     *)
(* upsert wrote between its load and its save                              *)
NotOverlapped == DOMAIN last.seen = {}

(* the value a PUT stores for a field it was given *)
PutValue(k) == IF k = "nip" THEN _normalize_nip(last.nip) ELSE last[k]

(* C24: a PUT leaves a record for its chat id, created if it was unknown,  *)
(* in which every supplied field has the supplied value, updated_at is     *)
(* the time of the request, every field that was not supplied is as it     *)
(* was (null in a new record); every other record is unchanged             *)
C24_PutCreatesOrUpdates ==
    (last.op = "put" /\ NotOverlapped) =>
        LET c == last.cid
            existed == c \in DOMAIN last.pre
        IN /\ last.status = 200
           /\ DOMAIN Registry = DOMAIN last.pre \cup {c}
           /\ \A k \in DataFields :
                 Registry[c][k] = IF last[k] # NULL THEN PutValue(k)
                                  ELSE IF existed THEN last.pre[c][k] ELSE NULL
           /\ Registry[c].updated_at = Iso(last.at)
           /\ existed => Registry[c].subscribed_at = last.pre[c].subscribed_at
           /\ \A d \in DOMAIN last.pre \ {c} : Registry[d] = last.pre[d]

(* C25: every record of the registry has a subscription time *)
C25_SubscribedAtFromCreation ==
    \A c \in DOMAIN Registry : Registry[c].subscribed_at # NULL

(* C26: a successful sync of one chat id leaves its record with the three  *)
(* names as fetched (null where the profile has none) and updated_at at    *)
(* the time of the request; the identifier and subscribed_at of a record   *)
(* that existed are as they were                                           *)
C26_SyncSetsNames ==
    (last.op = "sync" /\ last.status = 200) =>
        LET c == last.cid
        IN /\ c \in DOMAIN Registry
           /\ \A k \in NameFields : Registry[c][k] = last[k]
           /\ Registry[c].updated_at = Iso(last.at)
           /\ (NotOverlapped /\ c \in DOMAIN last.pre) =>
                 /\ Registry[c].nip = last.pre[c].nip
                 /\ Registry[c].subscribed_at = last.pre[c].subscribed_at

(* a stored user name was replaced by null, beside a kept identifier *)
C26_Witness ==
    /\ last.op = "sync" /\ last.status = 200 /\ NotOverlapped
    /\ last.cid \in DOMAIN last.pre
    /\ last.pre[last.cid].username # NULL
    /\ last.username = NULL
    /\ Registry[last.cid].username = NULL
    /\ Registry[last.cid].nip # NULL
    /\ Registry[last.cid].subscribed_at # NULL

(* a request has just been answered: the history moved on *)
Answered == last' # last \/ prev' # prev

(* C27: when get_chat fails for a sync of one chat id (a bot being         *)
(* configured, the request ends without a save) the answer is 404 and      *)
(* the step changes neither the file, its backups, the table nor any       *)
(* request in flight                                                       *)
C27_SyncFailureIs404 ==
    [][(Answered /\ last'.op = "sync" /\ last'.writes = 0 /\ token) =>
          /\ last'.status = 404
          /\ <<file, backups, table, api>>' = <<file, backups, table, api>>]_vars

(* a failed sync of a chat id that has a record *)
C27_Witness ==
    /\ last.op = "sync" /\ last.status = 404 /\ last.writes = 0
    /\ last.cid \in DOMAIN last.pre
    /\ Registry = last.pre
    /\ file = last.file /\ table = last.table

(* the chat ids whose profile the last sync-all fetched *)
Fetched == {c \in ChatIds : <<c, "first_name">> \in last.assigned}

(* C28: sync-all answers with the number of records whose profile was      *)
(* fetched; those records are saved with a new updated_at, and the         *)
(* records whose fetch failed are saved with every field as it was         *)
C28_SyncAllCounts ==
    last.op = "syncall" =>
        /\ last.status = 200
        /\ last.updated = Cardinality(Fetched)
        /\ Fetched \subseteq DOMAIN Registry
        /\ NotOverlapped =>
              /\ DOMAIN Registry = DOMAIN last.pre
              /\ \A c \in Fetched :
                    Registry[c].updated_at # last.pre[c].updated_at
              /\ \A c \in DOMAIN last.pre \ Fetched : Registry[c] = last.pre[c]

(* one fetch failed, the other succeeded and was saved *)
C28_Witness ==
    /\ last.op = "syncall" /\ last.updated = 1 /\ NotOverlapped
    /\ DOMAIN last.pre = {1, 2}
    /\ \E c \in DOMAIN last.pre \ Fetched :
          /\ Registry[c] = last.pre[c]
          /\ Registry[c].updated_at # NULL
    /\ \E c \in Fetched : Registry[c] # last.pre[c]

(* C29: a request with a truthy chat_id and a configured bot is always     *)
(* answered 200, with sent 0 when send_message raised and 1 when it did    *)
(* not                                                                     *)
C29_DirectFailureCaught ==
    (req.pc = "done" /\ TruthyInt(req.chat_id) /\ token) =>
        /\ resp.status = 200
        /\ resp.sent = IF req.raised THEN 0 ELSE 1

(* an update was handled in this step: it differs from the one before, or *)
(* it is the same once more and made its handler read the clock           *)
Handled == upd' # upd \/ now' # now

(* the upsert of the record of c took effect in this step *)
Upserted(c) ==
    /\ now' = now + 1
    /\ last'.op = "upsert" /\ last'.cid = c
    /\ DOMAIN Registry' = DOMAIN Registry \cup {c}
    /\ \A d \in DOMAIN Registry \ {c} : Registry'[d] = Registry[d]

(* C30: start and on_message change nothing of the registry for an update  *)
(* from a chat that is not private or without a user id, and upsert the    *)
(* record of the update's user id, and no other, for an update from a      *)
(* private chat with a user id                                             *)
C30_PrivateChatsOnly ==
    [][Handled =>
          IF upd'.chat_type = S_private /\ upd'.uid # NULL
          THEN Upserted(upd'.uid[2])
          ELSE <<file, backups, table>>' = <<file, backups, table>>]_vars

----------------------------------------------------------------------------
(* Properties of the dispatch of /notify, continued *)

(* C35: in a dispatch there is one task per resolved target and no other;  *)
(* send_message was attempted once for every task that has left the        *)
(* queue, failed ones included, and never for a chat id without a task;    *)
(* when the dispatch returns, every target has had exactly one attempt     *)
C35_OneAttemptPerTarget ==
    req.loaded =>
        /\ DOMAIN tasks \subseteq req.targets
        /\ req.pc = "dispatch" => DOMAIN tasks = req.targets
        /\ \A c \in SendIds :
              sends[c] = IF c \in DOMAIN tasks /\ tasks[c] # "waiting" THEN 1 ELSE 0
        /\ (req.pc = "done" /\ DOMAIN tasks # {}) =>
              \A c \in req.targets : sends[c] = 1 /\ tasks[c] \in {"ok", "failed"}

(* a send failed while another target was waiting for the only slot, and   *)
(* the dispatch returned with one attempt for each                         *)
C35_Witness ==
    /\ req.pc = "done" /\ limit = 1
    /\ Cardinality(req.targets) >= 2
    /\ DOMAIN tasks = req.targets
    /\ \A c \in req.targets : tasks[c] = "failed" /\ sends[c] = 1

(* C36: a dispatch to a non-empty target set eventually returns, whatever  *)
(* the concurrency limit is                                                *)
C36_DispatchReturns == (req.pc = "dispatch") ~> (req.pc = "done")

(* C37: during a sync-all at most NOTIFY_CONCURRENCY get_chat calls are in *)
(* flight at the same time                                                 *)
C37_SyncAllBounded == Cardinality(api.inflight) <= limit

----------------------------------------------------------------------------
(* Properties of the bot's process *)

(* C31: a follow-up of chat id c exists (sleeping or sent) only when the   *)
(* delay is greater than zero and c has a record; it is scheduled only in  *)
(* the step of a greeting of c whose welcome reply was delivered and       *)
(* whose upsert was made, and it is sent only from such a scheduled task;  *)
(* with a delay of zero or less there is none                              *)
C31_FollowupAfterGreeting ==
    [][\A c \in ChatIds :
          /\ app'.pending[c] + app'.followed[c] > 0 =>
                (app'.delay > 0 /\ c \in DOMAIN Registry')
          /\ app'.pending[c] > app.pending[c] =>
                /\ Handled /\ upd'.handler = "start" /\ upd'.replied
                /\ upd'.uid = IntVal(c)
                /\ Upserted(c)
          /\ app'.followed[c] > app.followed[c] =>
                (app.pending[c] > 0 /\ app'.pending[c] = app.pending[c] - 1)]_vars

(* a follow-up was sent to a greeted chat and another one is scheduled *)
C31_Witness ==
    \E c \in ChatIds :
        /\ app.followed[c] = 1 /\ app.pending[c] = 1
        /\ app.delay > 0
        /\ c \in DOMAIN Registry

(* C32: without a bot credential main() ends the process at once: no       *)
(* handler is ever registered, polling never starts and no update is       *)
(* handled; with a credential polling starts only after all the handlers   *)
(* were registered, in the order of main()                                 *)
C32_MainRefusesWithoutToken ==
    /\ ~token =>
          /\ app.pc \in {"init", "exited"}
          /\ app.handlers = << >>
          /\ upd = NoUpdate
    /\ app.pc = "exited" => ~token
    /\ app.pc = "polling" => app.handlers = Handlers
    /\ app.handlers = SubSeq(Handlers, 1, Len(app.handlers))
    /\ upd # NoUpdate => app.pc = "polling"

(* the process has exited for want of a credential *)
C32_Witness == ~token /\ app.pc = "exited" /\ app.handlers = << >>

----------------------------------------------------------------------------
(* Properties of the two backends side by side *)

FileRegistry == RegistryOf("file", file, table)
TableRegistry == RegistryOf("db", file, table)

(* C33: after the same upserts the file and the table hold the same chat   *)
(* ids, and for each of them the same first name, last name and user name  *)
(* and an updated_at that is set in both or in neither                     *)
C33_BackendsAgree ==
    /\ DOMAIN FileRegistry = DOMAIN TableRegistry
    /\ \A c \in DOMAIN FileRegistry \cap DOMAIN TableRegistry :
          /\ \A k \in NameFields : FileRegistry[c][k] = TableRegistry[c][k]
          /\ (FileRegistry[c].updated_at = NULL) <=> (TableRegistry[c].updated_at = NULL)

----------------------------------------------------------------------------
(* Properties of the outbound forwarding *)

(* the data was posted to the endpoint: its URL passed the check *)
Posted == app.reply \in {"sent", "http_error", "failed"}

(* a destination that is localhost, loopback, link-local or private *)
LocalDestination(host) == host.net \in {"loopback", "link_local", "private"}

(* C34: data is posted only to an https URL with a host; a host whose      *)
(* destination is localhost, loopback, link-local or private is posted to  *)
(* only when it is on the allow-list, never without an allow-list          *)
C34_OutboundUrlCheck ==
    Posted =>
        /\ app.endpoint # NoUrl
        /\ app.endpoint.scheme = S_https
        /\ app.endpoint.host # NoHost
        /\ LocalDestination(app.endpoint.host) =>
              /\ app.allowed_hosts # << >>
              /\ app.endpoint.host.text \in AllowedHosts(app.allowed_hosts)

----------------
(* Properties of the /broadcast command *)

(* C38: /broadcast sends to subscribers only when the sender's user id     *)
(* equals the configured admin chat id: when a broadcast has sent to some  *)
(* chat, an admin chat id is configured, the update carried a user, and    *)
(* the user's id is that admin chat id.                                    *)
C38_BroadcastAdminOnly ==
    (upd.handler = "broadcast" /\ app.cast # {}) =>
        /\ app.admin # NULL
        /\ upd.uid # NULL
        /\ str(upd.uid) = app.admin

----------------
(* Properties of the frame of upsert *)

(* the records that the selected backend holds for the call that starts    *)
(* now: the rows of the table, or what the load of the file returns        *)
StoreAtCall ==
    IF backend = "db" THEN get_subscribers_map(table)
    ELSE LET L == _load_subscribers_map(file, backups, now)
         IN [k \in DOMAIN L.map |-> SixFields(L.map[k])]

(* C39: an upsert for chat id c changes at most the record of c: the       *)
(* other chat ids of the store are the same after the call as before it,   *)
(* and so is every field of their records, on the file backend and on the  *)
(* relational backend                                                      *)
C39_UpsertFrame ==
    [][(last' # last /\ last'.op = "upsert") =>
          /\ DOMAIN Registry' \ {last'.cid} = DOMAIN StoreAtCall \ {last'.cid}
          /\ \A d \in DOMAIN StoreAtCall \ {last'.cid} :
                Registry'[d] = StoreAtCall[d]]_vars

(* an upsert has rewritten the file for a change of one record while the   *)
(* store held the record of another chat id                                *)
C39_Witness ==
    /\ backend = "file"
    /\ last.op = "upsert"
    /\ last.writes > 0
    /\ last.cid \in DOMAIN last.pre
    /\ \E d \in DOMAIN Registry \ {last.cid} :
          /\ d \in DOMAIN last.pre
          /\ Registry[d].first_name # NULL

----------------
(* Properties of a save that fails *)

(* C40: a save of the file backend whose write fails part-way does not     *)
(* raise and leaves the persisted store as it was: the next load returns   *)
(* the records that were stored before the failed write and moves no file  *)
(* to a backup                                                             *)
C40_FailedSaveKeepsStore ==
    [][(last.op = "save_failed" /\ last'.op = "get" /\ last' # last) =>
          /\ last.status = 200
          /\ [k \in DOMAIN last'.subs |-> SixFields(last'.subs[k])] = last.pre
          /\ backups' = backups]_vars

====
